---- MODULE Spec2Model ----
(***************************************************************************)
(* Trade-execution and network-routing layer of pulse-agent:               *)
(*   lib/gasManager.ts   GasManager, createGasManager, UniswapTrader       *)
(*   lib/simpleSwap.ts   SimpleSwapper (Uniswap V2 fallback venue)         *)
(*   lib/trading.ts      executeTrade, executeEthereumNetworkTrade         *)
(*                                                                         *)
(* Units.  TLC integers are 32 bit while the code computes in bigint wei,  *)
(* so the quantities are kept in the coarsest unit in which every literal  *)
(* of the code is a whole number:                                          *)
(*   ETH amounts    in units of 10 gwei    (1e10 wei)                      *)
(*   fees per gas   in thousandths of gwei (1e6 wei)                       *)
(*   gas            in gas units                                           *)
(* A decimal ETH number or string ("0.0015") is the number of its          *)
(* hundred-thousandths (150).                                              *)
(***************************************************************************)
EXTENDS Integers, Sequences, FiniteSets, TLC

VARIABLES
    quoteIn,    \* findBestFeeAndQuote: the quoter's pools and the input amount
    quoteOut,   \* findBestFeeAndQuote: the call's result
    slipIn,     \* minimum-output formula: a quote and a slippage percentage
    slipOut,    \* minimum-output formula: the result
    sizeIn,     \* calculateSafeTradeAmount: network, RPC answers, pools, balance, target
    sizeOut,    \* calculateSafeTradeAmount: the call's result
    pc,         \* where the trade request (or the direct executor call) stands
    env,        \* the request, the configuration and the process environment
    trader,     \* the UniswapTrader / SimpleSwapper instances: gas manager, network detection
    ex,         \* the running swap executor call: arguments, attempt, calls made, result
    orch,       \* executeTrade's locals: trade amount, position, swapResult, v3Error
    log,        \* executor invocations and returns seen by the orchestrator, in order
    db,         \* position store and processed-tweet table
    toasts,     \* notification sink (ToastService's store)
    sched,      \* TradingScheduler: clock, stored positions, the running sell check
    searchIn,   \* calculateEthForTokenAmount: the quoter's pools and the target output
    searchOut,  \* calculateEthForTokenAmount: the call's result
    gasIn,      \* getGasConfig: network, provider answers, gas estimate, urgency
    gasOut,     \* getGasConfig: the call's result
    retryIn,    \* estimateGasWithRetry: the retry budget and the estimate
    retryOut,   \* estimateGasWithRetry: the loop's state and outcome
    poll        \* TwitterApiMonitoringService: the runs of checkRecentTweets

schedVars == <<sched>>
searchVars == <<searchIn, searchOut>>
gasVars == <<gasIn, gasOut>>
retryVars == <<retryIn, retryOut>>
pollVars == <<poll>>
auxVars == <<sched, searchIn, searchOut, gasIn, gasOut, retryIn, retryOut, poll>>
corePureVars == <<quoteIn, quoteOut, slipIn, slipOut, sizeIn, sizeOut>>
pureVars == <<quoteIn, quoteOut, slipIn, slipOut, sizeIn, sizeOut, auxVars>>
mainVars == <<pc, env, trader, ex, orch, log, db, toasts>>
vars == <<quoteIn, quoteOut, slipIn, slipOut, sizeIn, sizeOut,
          pc, env, trader, ex, orch, log, db, toasts,
          sched, searchIn, searchOut, gasIn, gasOut, retryIn, retryOut, poll>>

(***************************************************************************)
(* Bounds of the model                                                     *)
(***************************************************************************)
MaxRate == 2          \* pool prices: token units quoted per unit of input, 0..MaxRate
MaxAmountIn == 60     \* input amounts tried on findBestFeeAndQuote, 0..MaxAmountIn
MaxQuote == 130       \* quotes tried on the minimum-output formula, 0..MaxQuote
MaxClockHours == 27   \* the scheduler's clock runs from hour 2 to this hour

None == {}
Some(v) == {v}
IsSome(o) == o # {}
Get(o) == CHOOSE v \in o : TRUE

Min(a, b) == IF a < b THEN a ELSE b

\* ethers.parseEther of a decimal ETH string (hundred-thousandths of ETH) -> amount
parseEther(ethAmount) == ethAmount * 1000

\* ethers.parseUnits(x, 'gwei') of whole.thousandths gwei -> thousandths of gwei
parseUnitsGwei(whole, thousandths) == whole * 1000 + thousandths

\* gasLimit (gas) * fee per gas (thousandths of gwei) -> amount; exact for the
\* gas limits that are multiples of 10000 gas
GasCost(gasLimit, feePerGas) == (gasLimit \div 10000) * feePerGas

(***************************************************************************)
(* lib/gasManager.ts : createGasManager, GasManager                        *)
(***************************************************************************)
ChainIds == {1, 11155111, 8453, 84532, 5}

\* priorityFee is parseUnits(priorityFeeGwei.toString(), 'gwei');
\* baseFeeMultiplier is Math.floor(baseFeeMultiplier * 100)
createGasManager(chainId) ==
    CASE chainId = 1 ->
           [isMainnet |-> TRUE, chainId |-> 1, supports1559 |-> TRUE,
            baseFeeMultiplier |-> 120, priorityFee |-> parseUnitsGwei(2, 0)]
      [] chainId = 11155111 ->
           [isMainnet |-> FALSE, chainId |-> 11155111, supports1559 |-> TRUE,
            baseFeeMultiplier |-> 120, priorityFee |-> parseUnitsGwei(0, 100)]
      [] chainId = 8453 ->
           [isMainnet |-> TRUE, chainId |-> 8453, supports1559 |-> TRUE,
            baseFeeMultiplier |-> 120, priorityFee |-> parseUnitsGwei(0, 10)]
      [] chainId = 84532 ->
           [isMainnet |-> FALSE, chainId |-> 84532, supports1559 |-> TRUE,
            baseFeeMultiplier |-> 110, priorityFee |-> parseUnitsGwei(0, 1)]
      [] OTHER ->
           [isMainnet |-> FALSE, chainId |-> chainId, supports1559 |-> TRUE,
            baseFeeMultiplier |-> 120, priorityFee |-> parseUnitsGwei(1, 0)]

Urgencies == {"standard", "fast", "rapid"}

\* Math.floor(getUrgencyMultiplier(urgency) * 100)
getUrgencyMultiplier(s, urgency) ==
    IF s.isMainnet
    THEN CASE urgency = "standard" -> 120
           [] urgency = "fast" -> 200
           [] urgency = "rapid" -> 300
           [] OTHER -> 120
    ELSE CASE urgency = "standard" -> 100
           [] urgency = "fast" -> 150
           [] urgency = "rapid" -> 200
           [] OTHER -> 100

\* The provider's answers to getFeeData() and getBlock('latest'):
\*   feeDataFails, blockFails : the call rejects
\*   gasPrice, baseFeePerGas  : None for null/undefined, else Some(fee)
RpcAnswers ==
    {[feeDataFails |-> TRUE, blockFails |-> FALSE, gasPrice |-> None, baseFeePerGas |-> None],
     [feeDataFails |-> FALSE, blockFails |-> TRUE, gasPrice |-> None, baseFeePerGas |-> None],
     [feeDataFails |-> FALSE, blockFails |-> FALSE, gasPrice |-> None,
      baseFeePerGas |-> Some(parseUnitsGwei(1, 0))]}
    \cup
    [feeDataFails : {FALSE}, blockFails : {FALSE},
     gasPrice : {Some(parseUnitsGwei(3, 0))},
     baseFeePerGas : {None, Some(0), Some(parseUnitsGwei(0, 10)), Some(parseUnitsGwei(20, 0))}]

getLegacyGasPrice(s, rpc, urgency) ==
    IF rpc.feeDataFails
    THEN IF s.isMainnet THEN parseUnitsGwei(10, 0) ELSE parseUnitsGwei(2, 0)
    ELSE LET basePrice == IF IsSome(rpc.gasPrice) /\ Get(rpc.gasPrice) # 0
                          THEN Get(rpc.gasPrice) ELSE parseUnitsGwei(20, 0)
             adjustedPrice == (basePrice * getUrgencyMultiplier(s, urgency)) \div 100
             minGasPrice == IF s.isMainnet THEN parseUnitsGwei(1, 0) ELSE parseUnitsGwei(0, 100)
         IN  IF adjustedPrice < minGasPrice THEN minGasPrice ELSE adjustedPrice

\* variant: the priority fee is not added to the buffered base fee
maxFeeOf_BaseOnly(baseFee, baseFeeMultiplier, maxPriorityFeePerGas) ==
    (baseFee * baseFeeMultiplier) \div 100

\* Max fee = (base fee * multiplier) + priority fee
maxFeeOf(baseFee, baseFeeMultiplier, maxPriorityFeePerGas) ==
    (baseFee * baseFeeMultiplier) \div 100 + maxPriorityFeePerGas

\* variant: no fallback constants, a failing provider leaves the fees at zero
getEIP1559FeeData_NoFallback(s, rpc, urgency) ==
    [maxFeePerGas |-> 0, maxPriorityFeePerGas |-> 0]

getEIP1559FeeData(s, rpc, urgency) ==
    IF rpc.feeDataFails \/ rpc.blockFails
    THEN [maxFeePerGas |-> IF s.isMainnet THEN parseUnitsGwei(15, 0) ELSE parseUnitsGwei(3, 0),
          maxPriorityFeePerGas |-> IF s.isMainnet THEN parseUnitsGwei(2, 0) ELSE parseUnitsGwei(0, 200)]
    ELSE LET baseFee == IF IsSome(rpc.baseFeePerGas) /\ Get(rpc.baseFeePerGas) # 0
                        THEN Get(rpc.baseFeePerGas) ELSE parseUnitsGwei(10, 0)
             maxPriorityFeePerGas == (s.priorityFee * getUrgencyMultiplier(s, urgency)) \div 100
             maxFeePerGas == maxFeeOf(baseFee, s.baseFeeMultiplier, maxPriorityFeePerGas)
             minMaxFee == IF s.isMainnet THEN parseUnitsGwei(5, 0) ELSE parseUnitsGwei(0, 100)
             minPriorityFee == IF s.isMainnet THEN parseUnitsGwei(1, 0) ELSE parseUnitsGwei(0, 10)
         IN  [maxFeePerGas |-> IF maxFeePerGas < minMaxFee THEN minMaxFee ELSE maxFeePerGas,
              maxPriorityFeePerGas |-> IF maxPriorityFeePerGas < minPriorityFee
                                       THEN minPriorityFee ELSE maxPriorityFeePerGas]

\* variant: the buffered estimate without the minimum
gasLimitOf_NoMinimum(s, estimatedGas) == (estimatedGas * 120) \div 100

\* the gas limit of getGasConfig: 20% buffer, floored at the network's minimum
gasLimitOf(s, estimatedGas) ==
    LET bufferedGas == (estimatedGas * 120) \div 100
        minimumGas == IF s.isMainnet THEN 150000 ELSE 100000
    IN  IF bufferedGas > minimumGas THEN bufferedGas ELSE minimumGas

getGasConfig(s, rpc, estimatedGas, urgency) ==
    LET gasLimit == gasLimitOf(s, estimatedGas)
    IN  IF ~s.supports1559
        THEN [gasLimit |-> gasLimit, type |-> 0,
              gasPrice |-> Some(getLegacyGasPrice(s, rpc, urgency)),
              maxFeePerGas |-> None, maxPriorityFeePerGas |-> None]
        ELSE LET feeData == getEIP1559FeeData(s, rpc, urgency)
             IN  [gasLimit |-> gasLimit, type |-> 2,
                  gasPrice |-> None,
                  maxFeePerGas |-> Some(feeData.maxFeePerGas),
                  maxPriorityFeePerGas |-> Some(feeData.maxPriorityFeePerGas)]

(***************************************************************************)
(* lib/gasManager.ts (uniswapTrading) : the quote engine                   *)
(***************************************************************************)
\* The Uniswap V3 pools of the token, one per fee tier: a pool without
\* liquidity makes quoteExactInputSingle revert, a liquid one quotes
\* rate token units per gwei of input.
Pools ==
    {p \in [{3000, 500, 10000} -> [liquid : BOOLEAN, rate : 0..MaxRate]] :
        \A t \in DOMAIN p : ~p[t].liquid => p[t].rate = 0}

\* UniswapTrader.getQuote: the quoter's answer, or the rethrown failure
getQuote(pools, fee, amountIn) ==
    IF pools[fee].liquid
    THEN [ok |-> TRUE, amountOut |-> amountIn * pools[fee].rate]
    ELSE [ok |-> FALSE, amountOut |-> 0]

feeTiers == <<3000, 500, 10000>>

slippagePercent == 5

\* variant: the slippage is added to the quote instead of taken off it
amountOutMinOf_Markup(quote, slippage) == (quote * (100 + slippage)) \div 100

\* variant: the slippage argument is ignored, the 5% of the quote engine is used
amountOutMinOf_Fixed(quote, slippage) == (quote * (100 - slippagePercent)) \div 100

\* (quote * BigInt(100 - slippagePercent)) / BigInt(100)
amountOutMinOf(quote, slippage) == (quote * (100 - slippage)) \div 100

RECURSIVE findFrom(_, _, _)
findFrom(pools, ethAmountWei, i) ==
    IF i > Len(feeTiers)
    THEN [ok |-> FALSE, fee |-> 0, quote |-> 0, amountOutMin |-> 0, quoteCalls |-> i - 1,
          error |-> "No liquidity found"]
    ELSE LET q == getQuote(pools, feeTiers[i], ethAmountWei)
         IN  IF q.ok
             THEN [ok |-> TRUE, fee |-> feeTiers[i], quote |-> q.amountOut,
                   amountOutMin |-> amountOutMinOf(q.amountOut, slippagePercent),
                   quoteCalls |-> i, error |-> ""]
             ELSE findFrom(pools, ethAmountWei, i + 1)

\* variant: a global best-price search over the tiers instead of first-liquid-wins
findBestFeeAndQuote_BestPrice(pools, ethAmountWei) ==
    LET liquid == {i \in 1..Len(feeTiers) : getQuote(pools, feeTiers[i], ethAmountWei).ok}
    IN  IF liquid = {}
        THEN findFrom(pools, ethAmountWei, 1)
        ELSE LET best == CHOOSE i \in liquid : \A j \in liquid :
                             \/ pools[feeTiers[i]].rate > pools[feeTiers[j]].rate
                             \/ pools[feeTiers[i]].rate = pools[feeTiers[j]].rate /\ i <= j
             IN  findFrom(pools, ethAmountWei, best)

\* variant: gives up after the first tier
findBestFeeAndQuote_FirstTierOnly(pools, ethAmountWei) ==
    LET q == getQuote(pools, feeTiers[1], ethAmountWei)
    IN  IF q.ok THEN findFrom(pools, ethAmountWei, 1)
        ELSE [ok |-> FALSE, fee |-> 0, quote |-> 0, amountOutMin |-> 0, quoteCalls |-> 1,
              error |-> "No liquidity found"]

findBestFeeAndQuote(pools, ethAmountWei) == findFrom(pools, ethAmountWei, 1)

RECURSIVE binarySearch(_, _, _, _, _, _, _)
binarySearch(pools, fee, targetTokenAmount, low, high, bestEthAmount, iterations) ==
    IF iterations = 0
    THEN bestEthAmount
    ELSE LET mid == (low + high) \div 2
             q == getQuote(pools, fee, mid)
         IN  IF q.ok /\ q.amountOut >= targetTokenAmount
             THEN binarySearch(pools, fee, targetTokenAmount, low, mid - 1, mid, iterations - 1)
             ELSE binarySearch(pools, fee, targetTokenAmount, mid + 1, high, bestEthAmount,
                               iterations - 1)

\* The body of the tier loop cannot throw (a failing quote is caught inside
\* the search), so the loop returns in its first iteration.
calculateEthForTokenAmount(pools, targetTokenAmount) ==
    [ethNeeded |-> binarySearch(pools, feeTiers[1], targetTokenAmount,
                                parseEther(100), parseEther(10000), parseEther(10000), 20),
     fee |-> feeTiers[1]]

(***************************************************************************)
(* lib/gasManager.ts (uniswapTrading) : balance-safe sizing                *)
(***************************************************************************)
SizingFailure(msg) ==
    [ok |-> FALSE, tradeAmount |-> 0, fee |-> 0, gasReserve |-> 0, error |-> msg]

\* gasConfig.maxFeePerGas || gasConfig.gasPrice || BigInt(0)
feePerGasOf(gasConfig) ==
    IF IsSome(gasConfig.maxFeePerGas) /\ Get(gasConfig.maxFeePerGas) # 0
    THEN Get(gasConfig.maxFeePerGas)
    ELSE IF IsSome(gasConfig.gasPrice) /\ Get(gasConfig.gasPrice) # 0
         THEN Get(gasConfig.gasPrice)
         ELSE 0

totalReserveOf(s, rpc) ==
    LET estimatedGas == 200000
        gasConfig == getGasConfig(s, rpc, estimatedGas, "standard")
        maxGasCost == GasCost(gasConfig.gasLimit, feePerGasOf(gasConfig))
        safeBuffer == parseEther(20)
    IN  maxGasCost + safeBuffer

\* variant: the input needed for the target is used without capping it at maxTradeAmount
calculateSafeTradeAmount_Uncapped(s, rpc, pools, availableETH, targetTokenAmount) ==
    LET totalReserve == totalReserveOf(s, rpc)
        maxTradeAmount == availableETH - totalReserve
    IN  IF availableETH <= totalReserve
        THEN SizingFailure("Insufficient ETH")
        ELSE IF IsSome(targetTokenAmount) /\ Get(targetTokenAmount) # 0
             THEN LET r == calculateEthForTokenAmount(pools, Get(targetTokenAmount))
                  IN  [ok |-> TRUE, tradeAmount |-> r.ethNeeded, fee |-> r.fee,
                       gasReserve |-> totalReserve, error |-> ""]
             ELSE LET f == findBestFeeAndQuote(pools, maxTradeAmount)
                  IN  IF f.ok
                      THEN [ok |-> TRUE, tradeAmount |-> maxTradeAmount, fee |-> f.fee,
                            gasReserve |-> totalReserve, error |-> ""]
                      ELSE SizingFailure(f.error)

\* targetTokenAmount: None for undefined, else Some(amount); 0n is falsy
calculateSafeTradeAmount(s, rpc, pools, availableETH, targetTokenAmount) ==
    LET totalReserve == totalReserveOf(s, rpc)
        maxTradeAmount == availableETH - totalReserve
    IN  IF availableETH <= totalReserve
        THEN SizingFailure("Insufficient ETH")
        ELSE IF IsSome(targetTokenAmount) /\ Get(targetTokenAmount) # 0
             THEN LET r == calculateEthForTokenAmount(pools, Get(targetTokenAmount))
                  IN  IF r.ethNeeded > maxTradeAmount
                      THEN [ok |-> TRUE, tradeAmount |-> maxTradeAmount, fee |-> r.fee,
                            gasReserve |-> totalReserve, error |-> ""]
                      ELSE [ok |-> TRUE, tradeAmount |-> r.ethNeeded, fee |-> r.fee,
                            gasReserve |-> totalReserve, error |-> ""]
             ELSE LET f == findBestFeeAndQuote(pools, maxTradeAmount)
                  IN  IF f.ok
                      THEN [ok |-> TRUE, tradeAmount |-> maxTradeAmount, fee |-> f.fee,
                            gasReserve |-> totalReserve, error |-> ""]
                      ELSE SizingFailure(f.error)

(***************************************************************************)
(* The swap executors: one try-body per attempt                            *)
(*   UniswapTrader.swapEthForTokenSimple, swapEthForTokenInternal          *)
(*   SimpleSwapper.swapEthForToken                                         *)
(***************************************************************************)
ValidToken == "0xec53bf9167f50cdeb3ae105f56099aaab9061f83"
MalformedToken == "0xec53"
TokenAddresses == {ValidToken, MalformedToken}

\* ethers.isAddress
isAddress(a) == a = ValidToken

\* what an attempt does, in order: calls on signer, provider, quoter and router, and sleeps
Ops == {"isAddress", "getAddress", "getBalance", "quote", "estimateGas", "getFeeData",
        "getBlock", "submit", "wait", "sleep"}
S(op) == <<[op |-> op, ms |-> 0]>>
Sleep(ms) == <<[op |-> "sleep", ms |-> ms]>>
Rep(op, n) == [i \in 1..n |-> [op |-> op, ms |-> 0]]

\* transaction hashes handed out by the network, per venue and attempt
TxHash == [v3 |-> <<"0xa1", "0xa2", "0xa3">>, v2 |-> <<"0xb1", "0xb2", "0xb3">>]

\* The environment met by one attempt:
\*   balance    None when getBalance rejects, else Some(wallet balance)
\*   pools      the quoter's pools
\*   gasFails   how many estimateGas calls in a row revert
\*   gasEstimate the estimate once estimateGas answers
\*   rpc, rpcTx the provider's fee answers for the sizing and for the transaction
\*   submit     "rejected" | "accepted"
\*   wait       "confirmed" | "reverted" | "null" | "throws" | "never"
ExecBalances == {None, Some(parseEther(229)), Some(parseEther(230)), Some(parseEther(10080))}
ExecPools ==
    {p \in Pools : /\ p[10000] = [liquid |-> FALSE, rate |-> 0]
                   /\ p[3000].rate <= 1
                   /\ p[500].rate \in {0, 2}
                   /\ p[3000].liquid => p[3000].rate = 1
                   /\ p[500].liquid => p[500].rate = 2}
ExecRpc == {r \in RpcAnswers : r.feeDataFails \/ r.baseFeePerGas = Some(parseUnitsGwei(20, 0))}
GasEstimates == {175000}
WaitOutcomes == {"confirmed", "reverted", "null", "throws", "never"}
\* the attempt in which every call answers and the transaction confirms
HappyEnv ==
    [balance |-> Some(parseEther(10080)),
     pools |-> [t \in {3000, 500, 10000} |->
                  IF t = 10000 THEN [liquid |-> FALSE, rate |-> 0]
                  ELSE [liquid |-> TRUE, rate |-> IF t = 3000 THEN 1 ELSE 2]],
     gasFails |-> 0, gasEstimate |-> 175000,
     rpc |-> CHOOSE r \in ExecRpc : ~r.feeDataFails,
     rpcTx |-> CHOOSE r \in ExecRpc : ~r.feeDataFails,
     submit |-> "accepted", wait |-> "confirmed"]

\* the environments an attempt can meet: the happy one with one call answering
\* differently
AttemptEnvs ==
    {[HappyEnv EXCEPT !.balance = b] : b \in ExecBalances}
    \cup {[HappyEnv EXCEPT !.pools = p] : p \in ExecPools}
    \cup {[HappyEnv EXCEPT !.gasFails = n, !.gasEstimate = g] : n \in 0..2, g \in GasEstimates}
    \cup {[HappyEnv EXCEPT !.rpc = r, !.rpcTx = r2] : r \in ExecRpc, r2 \in ExecRpc}
    \cup {[HappyEnv EXCEPT !.submit = "rejected"]}
    \cup {[HappyEnv EXCEPT !.wait = w] : w \in WaitOutcomes}

NoTx == [value |-> 0, fee |-> 0, amountIn |-> 0, amountOutMinimum |-> 0, gasLimit |-> 0,
         feePerGas |-> 0, balance |-> 0, quote |-> None,
         estimateValue |-> 0,       \* the value given to estimateGas
         safeAmount |-> None,       \* the tradeAmount of calculateSafeTradeAmount, if called
         quoteFee |-> None,         \* the fee tier of the quote behind amountOutMinimum
         gasChain |-> 0]            \* the chain id of the settings behind the gas configuration

Threw(steps, msg) ==
    [ok |-> FALSE, hang |-> FALSE, steps |-> steps, error |-> msg, hash |-> "", tx |-> NoTx,
     toTokenAmount |-> None,
     wait |-> "none"]    \* how the wait for the receipt ended, when a transaction was sent

\* variant: the same wait after every failed estimate
backoffDelay_Flat(i) == 1000

\* the wait after failed estimate i (counted from 0) of estimateGasWithRetry
backoffDelay(i) == 2 ^ i * 1000

\* GasManager.estimateGasWithRetry(contract, method, args, overrides, retries)
\* variant: no call is made, a stored estimate is answered
estimateGasWithRetry_Stored(retries, gasFails, gasEstimate) ==
    [ok |-> TRUE, gasEstimate |-> gasEstimate, steps |-> <<>>, error |-> <<>>]

estimateGasWithRetry(retries, gasFails, gasEstimate) ==
    LET failed == Min(gasFails, retries)
        Tries[i \in 0..retries] ==
            IF i = 0 THEN <<>>
            ELSE Tries[i - 1] \o S("estimateGas")
                 \o (IF i <= failed /\ i < retries THEN Sleep(backoffDelay(i - 1)) ELSE <<>>)
    IN  IF gasFails >= retries
        THEN [ok |-> FALSE, gasEstimate |-> 0, steps |-> Tries[retries],
              error |-> <<"Gas estimation failed after ", ToString(retries), " attempts: ",
                          "execution reverted">>]
        ELSE [ok |-> TRUE, gasEstimate |-> gasEstimate, steps |-> Tries[gasFails + 1],
              error |-> <<>>]

\* the provider calls getGasConfig makes
gasConfigSteps(s, rpc) ==
    IF s.supports1559 /\ ~rpc.feeDataFails THEN S("getFeeData") \o S("getBlock")
    ELSE S("getFeeData")

\* router.<swap>(..., txOptions) followed by the wait for the receipt;
\* hasTimeout: the wait races a 5-minute timer
submitAndWait(venue, attempt, steps, tx, e, hasTimeout, revertMsg, toTokenAmount) ==
    IF e.submit = "rejected"
    THEN Threw(steps \o S("submit"), <<"insufficient funds for intrinsic transaction cost">>)
    ELSE LET hash == TxHash[venue][attempt]
             done == steps \o S("submit") \o S("wait")
             fail(msg) == [Threw(done, msg) EXCEPT !.hash = hash, !.tx = tx, !.wait = e.wait]
         IN  CASE e.wait = "confirmed" ->
                    [ok |-> TRUE, hang |-> FALSE, steps |-> done, error |-> <<>>, hash |-> hash,
                     tx |-> tx, toTokenAmount |-> toTokenAmount, wait |-> e.wait]
               [] e.wait = "reverted" -> fail(<<revertMsg, hash>>)
               [] e.wait = "null" ->
                    IF hasTimeout THEN fail(<<"Transaction receipt not received">>)
                    ELSE fail(<<revertMsg, hash>>)
               [] e.wait = "throws" -> fail(<<"transaction execution reverted">>)
               [] OTHER ->
                    IF hasTimeout THEN fail(<<"Transaction confirmation timeout (5 minutes)">>)
                    ELSE [fail(<<>>) EXCEPT !.hang = TRUE]

\* gasConfig.type === 2 ? maxFeePerGas : gasPrice, as put into txOptions
txFeePerGas(gasConfig) ==
    IF gasConfig.type = 2 THEN Get(gasConfig.maxFeePerGas) ELSE Get(gasConfig.gasPrice)

\* try-body of UniswapTrader.swapEthForTokenSimple (the slippage argument is not read)
simpleTry(tokenAddress, ethAmount, s, attempt, e) ==
    IF ~isAddress(tokenAddress)
    THEN Threw(S("isAddress"), <<"Invalid token address: ", tokenAddress>>)
    ELSE
    LET ethAmountWei == parseEther(ethAmount)
        s1 == S("isAddress") \o S("getAddress") \o S("getBalance")
    IN  IF e.balance = None THEN Threw(s1, <<"could not coalesce error">>)
        ELSE IF Get(e.balance) < ethAmountWei + parseEther(80)
        THEN Threw(s1, <<"Insufficient balance">>)
        ELSE
        LET f == findBestFeeAndQuote(e.pools, ethAmountWei)
            s2 == s1 \o Rep("quote", f.quoteCalls)
        IN  IF ~f.ok THEN Threw(s2, <<f.error>>)
            ELSE
            LET g == estimateGasWithRetry(1, e.gasFails, e.gasEstimate)
                s3 == s2 \o g.steps
            IN  IF ~g.ok THEN Threw(s3, g.error)
                ELSE
                LET gasConfig == getGasConfig(s, e.rpcTx, g.gasEstimate, "standard")
                    tx == [value |-> ethAmountWei, fee |-> f.fee, amountIn |-> ethAmountWei,
                           amountOutMinimum |-> f.amountOutMin,
                           gasLimit |-> gasConfig.gasLimit,
                           feePerGas |-> txFeePerGas(gasConfig), balance |-> Get(e.balance),
                           quote |-> Some(f.quote), estimateValue |-> ethAmountWei,
                           safeAmount |-> None, quoteFee |-> Some(f.fee),
                           gasChain |-> s.chainId]
                IN  submitAndWait("v3", attempt, s3 \o gasConfigSteps(s, e.rpcTx), tx, e, FALSE,
                                  "Transaction failed: ", Some(f.quote))

\* the quoter calls calculateSafeTradeAmount makes
sizingQuoteCalls(s, rpc, pools, availableETH, targetTokenAmount) ==
    IF availableETH <= totalReserveOf(s, rpc) THEN 0
    ELSE IF IsSome(targetTokenAmount) /\ Get(targetTokenAmount) # 0 THEN 20
    ELSE findBestFeeAndQuote(pools, availableETH - totalReserveOf(s, rpc)).quoteCalls

\* variant: the amount the caller asked for is sent as the transaction's value
swapValue_Requested(actualEthAmount, ethAmount) == parseEther(ethAmount)

\* txOptions.value of swapEthForTokenInternal: "Use actual trade amount, not original input"
swapValue(actualEthAmount, ethAmount) == actualEthAmount

\* try-body of UniswapTrader.swapEthForTokenInternal (ethAmount is only logged,
\* the slippage argument is not read)
internalTry(tokenAddress, targetTokenAmount, s, attempt, e) ==
    IF ~isAddress(tokenAddress)
    THEN Threw(S("isAddress"), <<"Invalid token address: ", tokenAddress>>)
    ELSE
    LET s1 == S("isAddress") \o S("getAddress") \o S("getBalance")
    IN  IF e.balance = None THEN Threw(s1, <<"could not coalesce error">>)
        ELSE
        LET balance == Get(e.balance)
            ethAmount == 0      \* swapEthForExactTokens passes undefined
            safeCalc == calculateSafeTradeAmount(s, e.rpc, e.pools, balance, targetTokenAmount)
            s2 == s1 \o gasConfigSteps(s, e.rpc)
                  \o Rep("quote", sizingQuoteCalls(s, e.rpc, e.pools, balance, targetTokenAmount))
        IN  IF ~safeCalc.ok THEN Threw(s2, <<safeCalc.error>>)
            ELSE
            LET actualEthAmount == safeCalc.tradeAmount
                f == findBestFeeAndQuote(e.pools, actualEthAmount)
                s3 == s2 \o Rep("quote", f.quoteCalls)
            IN  IF ~f.ok THEN Threw(s3, <<f.error>>)
                ELSE
                LET g == estimateGasWithRetry(2, e.gasFails, e.gasEstimate)
                    s4 == s3 \o g.steps
                IN  IF ~g.ok THEN Threw(s4, g.error)
                    ELSE
                    LET gasConfig == getGasConfig(s, e.rpcTx, g.gasEstimate, "standard")
                        tx == [value |-> swapValue(actualEthAmount, ethAmount),
                               fee |-> safeCalc.fee,
                               amountIn |-> actualEthAmount,
                               amountOutMinimum |-> f.amountOutMin,
                               gasLimit |-> gasConfig.gasLimit,
                               feePerGas |-> txFeePerGas(gasConfig), balance |-> balance,
                               quote |-> Some(f.quote), estimateValue |-> actualEthAmount,
                               safeAmount |-> Some(safeCalc.tradeAmount),
                               quoteFee |-> Some(f.fee), gasChain |-> s.chainId]
                    IN  submitAndWait("v3", attempt, s4 \o gasConfigSteps(s, e.rpcTx), tx, e,
                                      TRUE, "Transaction failed on-chain. Hash: ", Some(f.quote))

\* variant: the minimum follows the amount and the slippage argument
v2AmountOutMin_FromSlippage(ethAmountWei, slippage) ==
    (ethAmountWei * (100 - slippage)) \div 100

\* const amountOutMin = 0 of SimpleSwapper.swapEthForToken
v2AmountOutMin(ethAmountWei, slippage) == 0

\* try-body of SimpleSwapper.swapEthForToken (the slippage argument is not read,
\* amountOutMin is the constant 0, the wallet balance is not read)
v2Try(tokenAddress, ethAmount, slippage, s, attempt, e) ==
    IF ~isAddress(tokenAddress)
    THEN Threw(S("isAddress"), <<"Invalid token address: ", tokenAddress>>)
    ELSE
    LET ethAmountWei == parseEther(ethAmount)
        minTradeAmount == parseEther(150)
        s1 == S("isAddress") \o S("getAddress")
    IN  IF ethAmountWei < minTradeAmount
        THEN Threw(s1, <<"Trade amount too small: ", ToString(ethAmount),
                         " ETH (minimum: 0.0015 ETH for reliable DEX swaps)">>)
        ELSE
        LET amountOutMin == v2AmountOutMin(ethAmountWei, slippage)
            g == estimateGasWithRetry(2, e.gasFails, e.gasEstimate)
            s2 == s1 \o g.steps
        IN  IF ~g.ok
            THEN Threw(s2, <<"Gas estimation failed - this usually means the swap would fail. Original error: ">>
                           \o g.error)
            ELSE
            LET gasConfig == getGasConfig(s, e.rpcTx, g.gasEstimate, "standard")
                tx == [value |-> ethAmountWei, fee |-> 0, amountIn |-> ethAmountWei,
                       amountOutMinimum |-> amountOutMin, gasLimit |-> gasConfig.gasLimit,
                       feePerGas |-> txFeePerGas(gasConfig), balance |-> 0,
                       quote |-> None,   \* the V2 venue asks for no quote
                       estimateValue |-> ethAmountWei, safeAmount |-> None,
                       quoteFee |-> None, gasChain |-> s.chainId]
            IN  submitAndWait("v2", attempt, s2 \o gasConfigSteps(s, e.rpcTx), tx, e, TRUE,
                              "Transaction failed on-chain. Hash: ", None)

(***************************************************************************)
(* The retry loops of the executors                                        *)
(***************************************************************************)
maxRetries_Simple == 2
maxRetries_Internal == 3
maxRetries_V2 == 3

\* a variant that backs off like the other two loops
delay_Simple_Doubling(attempt) == 2 ^ (attempt - 1) * 2000

\* setTimeout(resolve, 1000) of swapEthForTokenSimple
delay_Simple(attempt) == 1000

\* variant: the same delay before every retry
delay_Backoff_Flat(attempt) == 2000

\* Math.pow(2, attempt - 1) * 2000 of swapEthForTokenInternal and SimpleSwapper
delay_Backoff(attempt) == 2 ^ (attempt - 1) * 2000

NoResult ==
    [done |-> FALSE, success |-> FALSE, transactionHash |-> "", toTokenAmount |-> None,
     error |-> <<>>]

ExIdle ==
    [name |-> "none", tokenAddress |-> ValidToken, ethAmount |-> 0,
     targetTokenAmount |-> None, slippage |-> 0,
     attempt |-> 0,                 \* attempts made so far in this call
     steps |-> <<>>,                \* what the last attempt did, in order
     sleeps |-> <<>>,               \* the backoff sleeps between attempts, in order
     calls |-> [o \in Ops |-> 0],   \* calls made in this call, by kind
     lastError |-> <<>>,
     hashes |-> <<>>,               \* hashes of the transactions this call submitted
     receipts |-> <<>>,             \* how the wait for each of them ended (WaitOutcomes)
     tx |-> NoTx,                   \* the transaction the last attempt submitted
     hung |-> FALSE,                \* awaiting a receipt that never arrives, with no timer
     result |-> NoResult]

startCall(name, tokenAddress, ethAmount, targetTokenAmount, slippage) ==
    [ExIdle EXCEPT !.name = name, !.tokenAddress = tokenAddress, !.ethAmount = ethAmount,
                   !.targetTokenAmount = targetTokenAmount, !.slippage = slippage]

CountOps(steps) == [o \in Ops |-> Cardinality({i \in DOMAIN steps : steps[i].op = o})]

\* One iteration of `for (attempt = 1; attempt <= maxRetries; attempt++)`:
\* the try-body's outcome att, the catch with its backoff sleep, and, when
\* the loop ends, the returned result.
iterate(x, att, maxRetries, delay) ==
    LET attempt == x.attempt + 1
        base == [x EXCEPT !.attempt = attempt,
                          !.steps = att.steps,
                          !.calls = [o \in Ops |-> @[o] + CountOps(att.steps)[o]],
                          !.hashes = IF att.hash = "" THEN @ ELSE Append(@, att.hash),
                          !.receipts = IF att.hash = "" THEN @ ELSE Append(@, att.wait),
                          !.tx = att.tx]
    IN  IF att.hang THEN [base EXCEPT !.hung = TRUE]
        ELSE IF att.ok
        THEN [base EXCEPT !.result = [done |-> TRUE, success |-> TRUE,
                                      transactionHash |-> att.hash,
                                      toTokenAmount |-> att.toTokenAmount, error |-> <<>>]]
        ELSE IF attempt < maxRetries
        THEN [base EXCEPT !.lastError = att.error,
                          !.sleeps = Append(@, delay),
                          !.calls = [@ EXCEPT !["sleep"] = @ + 1]]
        ELSE [base EXCEPT !.lastError = att.error,
                          !.result = [done |-> TRUE, success |-> FALSE, transactionHash |-> "",
                                      toTokenAmount |-> None,
                                      error |-> <<"After ", ToString(maxRetries), " attempts: ">>
                                                \o att.error]]

\* new UniswapTrader / new SimpleSwapper: the gas manager defaults to mainnet
\* and initializeNetwork() is started without being awaited
NoTrader == [created |-> FALSE, gasChain |-> 1, detection |-> "none"]
NewTrader == [created |-> TRUE, gasChain |-> 1, detection |-> "pending"]

Running(name) == ex.name = name /\ ~ex.result.done /\ ~ex.hung

\* UniswapTrader.swapEthForToken -> swapEthForTokenSimple: one loop iteration
swapEthForTokenSimple_Attempt ==
    /\ Running("swapEthForToken")
    /\ \E e \in AttemptEnvs :
         ex' = iterate(ex, simpleTry(ex.tokenAddress, ex.ethAmount,
                                     createGasManager(trader.v3.gasChain), ex.attempt + 1, e),
                       maxRetries_Simple, delay_Simple(ex.attempt + 1))
    /\ UNCHANGED <<pc, env, trader, orch, log, db, toasts, pureVars>>

\* UniswapTrader.swapEthForExactTokens -> swapEthForTokenInternal: one loop iteration
swapEthForTokenInternal_Attempt ==
    /\ Running("swapEthForExactTokens")
    /\ \E e \in AttemptEnvs :
         ex' = iterate(ex, internalTry(ex.tokenAddress, ex.targetTokenAmount,
                                       createGasManager(trader.v3.gasChain), ex.attempt + 1, e),
                       maxRetries_Internal, delay_Backoff(ex.attempt + 1))
    /\ UNCHANGED <<pc, env, trader, orch, log, db, toasts, pureVars>>

\* SimpleSwapper.swapEthForToken: one loop iteration
SimpleSwapper_Attempt ==
    /\ Running("SimpleSwapper.swapEthForToken")
    /\ \E e \in AttemptEnvs :
         ex' = iterate(ex, v2Try(ex.tokenAddress, ex.ethAmount, ex.slippage,
                                 createGasManager(trader.v2.gasChain), ex.attempt + 1, e),
                       maxRetries_V2, delay_Backoff(ex.attempt + 1))
    /\ UNCHANGED <<pc, env, trader, orch, log, db, toasts, pureVars>>

\* initializeNetwork(): the un-awaited network detection settles
initializeNetwork ==
    /\ \E v \in {"v3", "v2"} :
         /\ trader[v].detection = "pending"
         /\ \/ trader' = [trader EXCEPT ![v].detection = "done", ![v].gasChain = env.network.chainId]
            \/ trader' = [trader EXCEPT ![v].detection = "failed"]
    /\ UNCHANGED <<pc, env, ex, orch, log, db, toasts, pureVars>>

(***************************************************************************)
(* executeTrade and the two network families                               *)
(***************************************************************************)
request == [token |-> "PEPE", tweetId |-> "tweet-1", influencer |-> "elonmusk"]

Networks ==
    {[id |-> "base-mainnet", chainType |-> "base", chainId |-> 8453],
     [id |-> "ethereum-mainnet", chainType |-> "ethereum", chainId |-> 1],
     [id |-> "base-sepolia", chainType |-> "base", chainId |-> 84532],
     [id |-> "ethereum-sepolia", chainType |-> "ethereum", chainId |-> 11155111]}

\* TRADING_CONFIG.hybrid[networkType]; amounts in hundred-thousandths of an ETH
HybridConfigs == [enabled : BOOLEAN, minTradeAmountETH : {100}, maxSlippage : {3}]

\* wallet balances seen by executeTrade, in hundred-thousandths of an ETH
WalletBalances == {50, 120, 150, 100000}

\* TRADING_CONFIG.maxTradeAmountUSD, "Maximum amount to spend per trade"
maxTradeAmountUSD == 30

\* the price of one ETH in USD that getTokenPrice answers
ethPriceUSD == 2500

\* the configuration as shipped: both families enabled
DefaultConfig == [enabled |-> TRUE, minTradeAmountETH |-> 100, maxSlippage |-> 3]

explorerKeys == {"ethereum", "base", "base-sepolia", "sepolia", "mainnet"}

\* the blockExplorerUrl of the network descriptors of getNetworksForEnvironment
blockExplorerUrl(networkId) ==
    CASE networkId = "base-mainnet" -> "https://basescan.org"
      [] networkId = "ethereum-mainnet" -> "https://etherscan.io"
      [] networkId = "base-sepolia" -> "https://sepolia.basescan.org"
      [] networkId = "ethereum-sepolia" -> "https://sepolia.etherscan.io"
      [] OTHER -> ""

getBlockExplorerUrl(txHash, networkId) ==
    LET explorers == [k \in explorerKeys |->
                        CASE k = "ethereum" -> "https://etherscan.io/tx/"
                          [] k = "base" -> "https://basescan.org/tx/"
                          [] k = "base-sepolia" -> "https://sepolia.basescan.org/tx/"
                          [] k = "sepolia" -> "https://sepolia.etherscan.io/tx/"
                          [] OTHER -> "https://etherscan.io/tx/"]
        baseUrl == IF networkId \in explorerKeys THEN explorers[networkId]
                   ELSE explorers["ethereum"]
    IN  <<baseUrl, txHash>>

\* ToastService.addToast: type, title, message and the transaction data
Toast(type, title, message, txHash, explorerUrl) ==
    [type |-> type, title |-> title, message |-> message, txHash |-> txHash,
     explorerUrl |-> explorerUrl]

addTradeBuyToast(amount, txHash, explorerUrl) ==
    Toast("trade-buy", <<"Bought ", request.token>>,
          <<"Purchased ", amount, " ETH worth of ", request.token>>, txHash, explorerUrl)

NoPosition == [created |-> FALSE, token |-> "", amount |-> 0, status |-> ""]

OrchIdle ==
    [tokenAddress |-> "", tradeAmountETH |-> 0, maxSlippage |-> 0, position |-> NoPosition,
     swapResult |-> NoResult, v3Error |-> <<>>, error |-> <<>>, thrown |-> <<>>,
     skipped |-> FALSE,
     balanceETH |-> None,           \* the wallet balance once walletProvider.getBalance() answered
     custodial |-> "none"]          \* what became of wallet.createTrade, once reached

\* a variant that treats the skip as a failure
SkipTrade_Fails(o) ==
    /\ orch' = [o EXCEPT !.thrown = <<"Insufficient balance">>]
    /\ pc' = "threw"
    /\ UNCHANGED <<db, toasts>>

\* database.markTweetAsProcessed(request.tweetId) followed by return;
\* o: executeTrade's locals at that point
SkipTrade(o) ==
    /\ db' = [db EXCEPT !.processed = @ \union {request.tweetId}]
    /\ orch' = [o EXCEPT !.skipped = TRUE]
    /\ pc' = "returned"
    /\ UNCHANGED toasts

\* a variant that takes the smaller of the two
Max_Smaller(a, b) == IF a > b THEN b ELSE a

Max(a, b) == IF a > b THEN a ELSE b

\* variant: the DEX minimum is not checked against the balance
belowDexMinimum_Never(chainType, balanceETH) == FALSE

\* networkType === 'ethereum' && balanceETH < dexMinimum (0.0015 ETH)
belowDexMinimum(chainType, balanceETH) == chainType = "ethereum" /\ balanceETH < 150

\* executeTrade up to the dispatch on the network family
executeTrade_Begin ==
    /\ pc = "start"
    /\ \E testing \in BOOLEAN, found \in BOOLEAN, tokenAddress \in TokenAddresses,
          walletOk \in BOOLEAN, balanceETH \in WalletBalances :
         LET networkConfig == env.config
             resolved == [orch EXCEPT !.tokenAddress = tokenAddress]
             read == [resolved EXCEPT !.balanceETH = Some(balanceETH)]
         IN
         IF testing
         THEN \* executeTestTrade
              /\ db' = [db EXCEPT !.positions =
                            Append(@, [created |-> TRUE, token |-> request.token, amount |-> 0,
                                       status |-> "holding"])]
              /\ toasts' = Append(toasts,
                                  addTradeBuyToast("(test)", "0xmock",
                                                   getBlockExplorerUrl("0xmock", "base")))
              /\ pc' = "returned"
              /\ UNCHANGED orch
         ELSE IF ~found THEN SkipTrade(orch)
         ELSE IF ~walletOk
         THEN /\ pc' = "threw"
              /\ orch' = [resolved EXCEPT !.thrown = <<"wallet provider unavailable">>]
              /\ UNCHANGED <<db, toasts>>
         ELSE IF ~networkConfig.enabled THEN SkipTrade(read)
         ELSE IF balanceETH < networkConfig.minTradeAmountETH THEN SkipTrade(read)
         ELSE IF belowDexMinimum(env.network.chainType, balanceETH) THEN SkipTrade(read)
         ELSE LET preferredTradeAmountETH == balanceETH \div 10
                  minRequired == networkConfig.minTradeAmountETH
                  tradeAmountETH ==
                      IF env.network.chainType = "ethereum"
                      THEN Max(Max(preferredTradeAmountETH, minRequired), 150)
                      ELSE Max(preferredTradeAmountETH, minRequired)
              IN  /\ orch' = [read EXCEPT
                                !.tradeAmountETH = tradeAmountETH,
                                !.maxSlippage = networkConfig.maxSlippage,
                                !.position = [created |-> TRUE, token |-> request.token,
                                              amount |-> tradeAmountETH, status |-> "holding"]]
                  /\ toasts' = Append(toasts,
                                      Toast("info", <<"Executing Trade">>,
                                            <<"Buying ", request.token, " with ",
                                              ToString(tradeAmountETH), " ETH...">>, "", <<>>))
                  /\ pc' = "dispatch"
                  /\ UNCHANGED db
    /\ UNCHANGED <<env, trader, ex, log, pureVars>>

\* the throw of a network-family function, caught by executeTrade
Fail(msg) ==
    /\ orch' = [orch EXCEPT !.error = msg]
    /\ pc' = "tradeError"

\* the success toast and the position save that end both network families
Succeed(txHash) ==
    /\ toasts' = Append(toasts,
                        addTradeBuyToast(ToString(orch.tradeAmountETH), txHash,
                                         IF txHash = "" THEN <<>>
                                         ELSE getBlockExplorerUrl(txHash, env.network.id)))
    /\ db' = [db EXCEPT !.positions = Append(@, orch.position)]
    /\ pc' = "returned"

\* a variant that sends every family to the DEX
tradePath_AllDex(chainType) == "dex"

\* the dispatch of executeTrade on the chain type of the token's network
tradePath(chainType) ==
    IF chainType = "base" THEN "custodial"
    ELSE IF chainType = "ethereum" THEN "dex"
    ELSE "unsupported"

\* the custodial trade failed: createTrade was missing, threw, or its wait threw
CustodialFail(outcome, msg) ==
    /\ orch' = [orch EXCEPT !.error = msg, !.custodial = outcome]
    /\ pc' = "tradeError"
    /\ UNCHANGED <<toasts, db>>

executeBaseNetworkTrade ==
    /\ pc = "dispatch"
    /\ tradePath(env.network.chainType) = "custodial"
    /\ \E hasCreateTrade \in BOOLEAN, outcome \in {"createThrows", "waitThrows", "settled"},
          txHash \in {"", "0xc1"} :
         IF ~hasCreateTrade
         THEN CustodialFail("unavailable", <<"Coinbase wallet trading functionality not available. Ensure you are using CdpSmartWalletProvider on Base network.">>)
         ELSE IF outcome = "createThrows"
         THEN CustodialFail(outcome, <<"createTrade failed">>)
         ELSE IF outcome = "waitThrows"
         THEN CustodialFail(outcome, <<"trade.wait failed">>)
         ELSE /\ Succeed(txHash)
              /\ orch' = [orch EXCEPT !.custodial = outcome]
    /\ UNCHANGED <<env, trader, ex, log, pureVars>>

\* the orchestrator's calls of the venues and their returns, as they happen;
\* a return carries the outcome and the hashes of all transactions the call submitted
CallEvent(venue, x) ==
    [ev |-> "call", venue |-> venue, tokenAddress |-> x.tokenAddress,
     ethAmount |-> x.ethAmount, slippage |-> x.slippage, success |-> FALSE,
     transactionHash |-> "", error |-> <<>>, hashes |-> <<>>]

ReturnEvent(venue, x) ==
    [ev |-> "return", venue |-> venue, tokenAddress |-> x.tokenAddress,
     ethAmount |-> x.ethAmount, slippage |-> x.slippage, success |-> x.result.success,
     transactionHash |-> x.result.transactionHash, error |-> x.result.error,
     hashes |-> x.hashes]

\* executeEthereumNetworkTrade up to the call of the primary venue
executeEthereumNetworkTrade_Begin ==
    /\ pc = "dispatch"
    /\ tradePath(env.network.chainType) = "dex"
    /\ \E rpcUrl \in BOOLEAN, privateKey \in {"missing", "invalid", "valid"},
          walletAddress \in BOOLEAN, balance \in ExecBalances :
         IF ~rpcUrl
         THEN /\ Fail(<<"No RPC URL configured for ", env.network.id>>)
              /\ UNCHANGED <<trader, ex, log>>
         ELSE IF privateKey = "missing"
         THEN /\ Fail(<<"ETHEREUM_PRIVATE_KEY environment variable required for DEX trading">>)
              /\ UNCHANGED <<trader, ex, log>>
         ELSE IF privateKey = "invalid"
         THEN Fail(<<"invalid private key">>) /\ UNCHANGED <<trader, ex, log>>
         ELSE IF ~walletAddress
         THEN /\ Fail(<<"ETHEREUM_WALLET_ADDRESS environment variable required for DEX trading">>)
              /\ trader' = [trader EXCEPT !.v3 = NewTrader]
              /\ UNCHANGED <<ex, log>>
         ELSE IF (IF balance = None THEN 0 ELSE Get(balance)) < parseEther(orch.tradeAmountETH)
         THEN /\ Fail(<<"Insufficient ETH balance: need ", ToString(orch.tradeAmountETH),
                        " ETH">>)
              /\ trader' = [trader EXCEPT !.v3 = NewTrader]
              /\ UNCHANGED <<ex, log>>
         ELSE LET call == startCall("swapEthForToken", orch.tokenAddress,
                                    orch.tradeAmountETH, None, orch.maxSlippage)
              IN  /\ trader' = [trader EXCEPT !.v3 = NewTrader]
                  /\ ex' = call
                  /\ log' = Append(log, CallEvent("v3", call))
                  /\ pc' = "primary"
                  /\ UNCHANGED orch
    /\ UNCHANGED <<env, db, toasts, pureVars>>

\* a variant that keeps judging the primary's outcome once it has failed
FinishSwap_KeepsPrimary(swapResult) ==
    IF orch.v3Error # <<>> \/ ~swapResult.success
    THEN /\ pc' = "tradeError"
         /\ orch' = [orch EXCEPT !.error = <<"DEX swap failed: ">> \o orch.v3Error]
         /\ UNCHANGED <<toasts, db>>
    ELSE /\ Succeed(swapResult.transactionHash)
         /\ orch' = [orch EXCEPT !.swapResult = swapResult]

\* `if (!swapResult.success) throw ...` and the success path after it
FinishSwap(swapResult) ==
    IF ~swapResult.success
    THEN /\ pc' = "tradeError"
         /\ orch' = [orch EXCEPT !.swapResult = swapResult,
                                 !.error = <<"DEX swap failed: ">> \o swapResult.error]
         /\ UNCHANGED <<toasts, db>>
    ELSE /\ Succeed(swapResult.transactionHash)
         /\ orch' = [orch EXCEPT !.swapResult = swapResult]

\* a variant without the fallback venue
executeEthereumNetworkTrade_AfterPrimary_NoFallback ==
    /\ pc = "primary"
    /\ ex.result.done
    /\ FinishSwap(ex.result)
    /\ log' = Append(log, ReturnEvent("v3", ex))
    /\ ex' = ExIdle
    /\ UNCHANGED <<env, trader, pureVars>>

\* the primary venue has returned: fall back to the V2 router when it failed
executeEthereumNetworkTrade_AfterPrimary ==
    /\ pc = "primary"
    /\ ex.result.done
    /\ IF ex.result.success
       THEN /\ FinishSwap(ex.result)
            /\ log' = Append(log, ReturnEvent("v3", ex))
            /\ ex' = ExIdle
            /\ UNCHANGED trader
       ELSE LET call == startCall("SimpleSwapper.swapEthForToken", orch.tokenAddress,
                                  orch.tradeAmountETH, None, orch.maxSlippage)
            IN  /\ orch' = [orch EXCEPT !.swapResult = ex.result, !.v3Error = ex.result.error]
                /\ trader' = [trader EXCEPT !.v2 = NewTrader]
                /\ ex' = call
                /\ log' = Append(Append(log, ReturnEvent("v3", ex)), CallEvent("v2", call))
                /\ pc' = "fallback"
                /\ UNCHANGED <<db, toasts>>
    /\ UNCHANGED <<env, pureVars>>

\* the fallback venue has returned
executeEthereumNetworkTrade_AfterFallback ==
    /\ pc = "fallback"
    /\ ex.result.done
    /\ FinishSwap(ex.result)
    /\ log' = Append(log, ReturnEvent("v2", ex))
    /\ ex' = ExIdle
    /\ UNCHANGED <<env, trader, pureVars>>

\* a variant whose catch records the failure but does not rethrow
executeTrade_Catch_Swallow ==
    /\ pc = "tradeError"
    /\ db' = [db EXCEPT !.positions = Append(@, [orch.position EXCEPT !.status = "failed"])]
    /\ toasts' = Append(toasts,
                        Toast("error", <<"Trade Failed">>,
                              <<"Failed to buy ", request.token, ": ">> \o orch.error, "", <<>>))
    /\ orch' = [orch EXCEPT !.position.status = "failed"]
    /\ pc' = "returned"
    /\ UNCHANGED <<env, trader, ex, log, pureVars>>

\* catch (tradeError) of executeTrade
executeTrade_Catch ==
    /\ pc = "tradeError"
    /\ db' = [db EXCEPT !.positions = Append(@, [orch.position EXCEPT !.status = "failed"])]
    /\ toasts' = Append(toasts,
                        Toast("error", <<"Trade Failed">>,
                              <<"Failed to buy ", request.token, ": ">> \o orch.error, "", <<>>))
    /\ orch' = [orch EXCEPT !.position.status = "failed", !.thrown = orch.error]
    /\ pc' = "threw"
    /\ UNCHANGED <<env, trader, ex, log, pureVars>>

(***************************************************************************)
(* scheduler.ts : TradingScheduler.checkPositionsToSell, and executeSell   *)
(* of lib/trading.ts.  Times are in milliseconds, at whole hours.          *)
(***************************************************************************)
\* TRADING_CONFIG.holdDurationHours
holdDurationHours == 24

HourMs == 60 * 60 * 1000

PositionIds == <<"p1", "p2">>

\* purchase times of the stored positions
PurchaseTimes == {0, 2 * HourMs}

\* DatabaseService.getHoldingPositions: SELECT * FROM positions WHERE status = 'holding'
\* variant: without the WHERE clause
getHoldingPositions_All(positions) == PositionIds

getHoldingPositions(positions) ==
    SelectSeq(PositionIds, LAMBDA id : positions[id].status = "holding")

SchedIdle ==
    [now |-> 0,
     positions |-> [id \in {"p1", "p2"} |->
                      [status |-> "failed", purchaseTime |-> 0, sellTime |-> None]],
     running |-> FALSE,     \* a sell check is between its first and its last position
     snapshot |-> <<>>,     \* what getHoldingPositions answered to the last sell check
     queue |-> <<>>,        \* the positions the running sell check has still to look at
     examined |-> <<>>,     \* the positions the last sell check looked at, in order
     sells |-> {}]          \* the executeSell calls made so far

SchedUnused == sched = SchedIdle

\* the cron callback: checkPositionsToSell up to the loop over the positions
checkPositionsToSell_Begin ==
    /\ ~sched.running
    /\ \E dbOk \in BOOLEAN :
         LET holdingPositions == IF dbOk THEN getHoldingPositions(sched.positions) ELSE <<>>
         IN  sched' = [sched EXCEPT !.snapshot = holdingPositions,
                                    !.queue = holdingPositions,
                                    !.examined = <<>>,
                                    !.running = holdingPositions # <<>>]
    /\ UNCHANGED <<corePureVars, mainVars, searchVars, gasVars, retryVars, pollVars>>

\* one iteration of the loop, with the executeSell it may call: executeSell
\* updates the position to 'sold', or to 'failed' when it throws
checkPositionsToSell_Position ==
    /\ sched.running
    /\ \E sellOk \in BOOLEAN :
         LET id == Head(sched.queue)
             position == sched.positions[id]
             holdDurationMs == holdDurationHours * 60 * 60 * 1000
             timeSincePurchase == sched.now - position.purchaseTime
             due == timeSincePurchase >= holdDurationMs
             looked == [id |-> id, at |-> sched.now, status |-> position.status, sold |-> due]
         IN  sched' = [sched EXCEPT
                         !.queue = Tail(@),
                         !.running = Tail(sched.queue) # <<>>,
                         !.examined = Append(@, looked),
                         !.sells = IF due THEN @ \cup {[id |-> id, at |-> sched.now,
                                                        status |-> position.status]}
                                   ELSE @,
                         !.positions[id] =
                             IF ~due THEN @
                             ELSE IF sellOk
                             THEN [@ EXCEPT !.status = "sold", !.sellTime = Some(sched.now)]
                             ELSE [@ EXCEPT !.status = "failed"]]
    /\ UNCHANGED <<corePureVars, mainVars, searchVars, gasVars, retryVars, pollVars>>

\* the clock advances
Tick ==
    /\ sched.now < MaxClockHours * HourMs
    /\ sched' = [sched EXCEPT !.now = @ + HourMs]
    /\ UNCHANGED <<corePureVars, mainVars, searchVars, gasVars, retryVars, pollVars>>

(***************************************************************************)
(* The program: executeTrade on a resolved network, or one executor        *)
(* called directly                                                         *)
(***************************************************************************)
DirectAmounts == {100, 149, 150, 2000}
DirectTargets == {0, parseEther(300)}
\* slippage arguments of direct SimpleSwapper.swapEthForToken calls (3 is the default)
DirectSlippages == {0, 3, 50}

NoQuote ==
    [ok |-> FALSE, fee |-> 0, quote |-> 0, amountOutMin |-> 0, quoteCalls |-> 0, error |-> ""]

QuoteIdle == [pools |-> [t \in {3000, 500, 10000} |-> [liquid |-> FALSE, rate |-> 0]],
              ethAmountWei |-> 0]
SlipIdle == [quote |-> 0, slippage |-> slippagePercent]
SizeIdle == [chainId |-> 1, rpc |-> CHOOSE r \in RpcAnswers : r.feeDataFails,
             pools |-> QuoteIdle.pools, availableETH |-> 0, targetTokenAmount |-> None]

QuoteUnused == quoteIn = QuoteIdle /\ quoteOut = [called |-> FALSE, res |-> NoQuote]
SlipUnused == slipIn = SlipIdle /\ slipOut = [called |-> FALSE, amountOutMin |-> 0]
SizeUnused == sizeIn = SizeIdle /\ sizeOut = [called |-> FALSE, res |-> SizingFailure("")]

SearchIdle == [pools |-> QuoteIdle.pools, targetTokenAmount |-> 1]
NoSearch == [threw |-> FALSE, ethNeeded |-> 0, fee |-> 0]
SearchUnused == searchIn = SearchIdle /\ searchOut = [called |-> FALSE, res |-> NoSearch]

GasIdle == [settings |-> createGasManager(1), rpc |-> SizeIdle.rpc, estimatedGas |-> 0,
            urgency |-> "standard"]
NoGasConfig == [gasLimit |-> 0, type |-> 2, gasPrice |-> None, maxFeePerGas |-> None,
                maxPriorityFeePerGas |-> None]
GasUnused == gasIn = GasIdle /\ gasOut = [called |-> FALSE, res |-> NoGasConfig]

RetryIdle == [retries |-> 1, gasEstimate |-> 0]
\* the loop of estimateGasWithRetry before its first iteration:
\*   at         "idle", "loop" (at the loop test), "sleep" (a call failed, the
\*              wait is due), "returned", "threw"
\*   i          the loop counter
\*   answers    what each estimateGas call answered: "ok" or the error's message
\*   steps      the calls and waits made so far
\*   lastError  the message of the last failed call
NoEstimate == [at |-> "idle", i |-> 0, answers |-> <<>>, steps |-> <<>>, lastError |-> None,
               gasEstimate |-> None, error |-> <<>>]
RetryUnused == retryIn = RetryIdle /\ retryOut = NoEstimate

\* the other components while one component is exercised alone
\* the monitoring service before startPolling
\*   tweets     what fetchUserTweets answers for the influencer, newest first
\*   processed  the processed_tweets table
\*   trades     executeTrade invocations so far, per tweet id
\*   runs       the invocations of checkRecentTweets: where each stands
TweetIds == <<"t1", "t2">>
PollIdle ==
    [isRunning |-> FALSE,
     tweets |-> [i \in DOMAIN TweetIds |-> [id |-> TweetIds[i], isReply |-> FALSE, old |-> FALSE]],
     processed |-> {},
     trades |-> [i \in DOMAIN TweetIds |-> 0],
     runs |-> <<>>]
PollUnused == poll = PollIdle

AuxUnused == SchedUnused /\ SearchUnused /\ GasUnused /\ RetryUnused /\ PollUnused

NoTraders == [v3 |-> NoTrader, v2 |-> NoTrader]

MainUnused ==
    /\ pc = "unused"
    /\ env = [entry |-> "none", network |-> CHOOSE n \in Networks : n.chainId = 1,
              config |-> DefaultConfig]
    /\ trader = NoTraders
    /\ ex = ExIdle
    /\ orch = OrchIdle
    /\ log = <<>>
    /\ db = [positions |-> <<>>, processed |-> {}]
    /\ toasts = <<>>

\* executeTrade for a token resolved on one of the configured networks
Init ==
    /\ QuoteUnused /\ SlipUnused /\ SizeUnused
    /\ AuxUnused
    /\ orch = OrchIdle
    /\ log = <<>>
    /\ db = [positions |-> <<>>, processed |-> {}]
    /\ toasts = <<>>
    /\ pc = "start"
    /\ \E network \in Networks, config \in HybridConfigs :
         env = [entry |-> "executeTrade", network |-> network, config |-> config]
    /\ trader = NoTraders
    /\ ex = ExIdle

\* one executor of a freshly created trader or swapper, called directly
InitExec ==
    /\ QuoteUnused /\ SlipUnused /\ SizeUnused
    /\ AuxUnused
    /\ orch = OrchIdle
    /\ log = <<>>
    /\ db = [positions |-> <<>>, processed |-> {}]
    /\ toasts = <<>>
    /\ pc = "direct"
    /\ \E network \in {n \in Networks : n.chainType = "ethereum"},
          tokenAddress \in TokenAddresses :
         \/ \E ethAmount \in DirectAmounts :
              \/ /\ env = [entry |-> "swapEthForToken", network |-> network,
                          config |-> DefaultConfig]
                 /\ trader = [NoTraders EXCEPT !.v3 = NewTrader]
                 /\ ex = startCall("swapEthForToken", tokenAddress, ethAmount, None, 5)
              \/ /\ env = [entry |-> "SimpleSwapper.swapEthForToken", network |-> network,
                          config |-> DefaultConfig]
                 /\ trader = [NoTraders EXCEPT !.v2 = NewTrader]
                 /\ \E slippage \in DirectSlippages :
                      ex = startCall("SimpleSwapper.swapEthForToken", tokenAddress,
                                     ethAmount, None, slippage)
         \/ \E target \in DirectTargets :
              /\ env = [entry |-> "swapEthForExactTokens", network |-> network,
                       config |-> DefaultConfig]
              /\ trader = [NoTraders EXCEPT !.v3 = NewTrader]
              /\ ex = startCall("swapEthForExactTokens", tokenAddress, 0, Some(target), 5)

NextExec ==
    \/ swapEthForTokenSimple_Attempt
    \/ swapEthForTokenInternal_Attempt
    \/ SimpleSwapper_Attempt
    \/ initializeNetwork

SpecExec == InitExec /\ [][NextExec]_vars

Next ==
    \/ executeTrade_Begin
    \/ executeBaseNetworkTrade
    \/ executeEthereumNetworkTrade_Begin
    \/ swapEthForTokenSimple_Attempt
    \/ SimpleSwapper_Attempt
    \/ initializeNetwork
    \/ executeEthereumNetworkTrade_AfterPrimary
    \/ executeEthereumNetworkTrade_AfterFallback
    \/ executeTrade_Catch

Spec == Init /\ [][Next]_vars

(***************************************************************************)
(* findBestFeeAndQuote applied to every pool configuration and amount      *)
(***************************************************************************)
InitQuote ==
    /\ MainUnused
    /\ AuxUnused
    /\ quoteIn \in [pools : Pools, ethAmountWei : 0..MaxAmountIn]
    /\ quoteOut = [called |-> FALSE, res |-> NoQuote]
    /\ SlipUnused
    /\ SizeUnused

CallFindBestFeeAndQuote ==
    /\ ~quoteOut.called
    /\ quoteOut' = [called |-> TRUE,
                    res |-> findBestFeeAndQuote(quoteIn.pools, quoteIn.ethAmountWei)]
    /\ UNCHANGED <<quoteIn, slipIn, slipOut, sizeIn, sizeOut, mainVars, auxVars>>

NextQuote == CallFindBestFeeAndQuote

SpecQuote == InitQuote /\ [][NextQuote]_vars

(***************************************************************************)
(* The minimum-output formula applied to every quote and slippage          *)
(***************************************************************************)
SlippagePercents == 1..99

InitSlip ==
    /\ MainUnused
    /\ AuxUnused
    /\ slipIn \in [quote : 0..MaxQuote, slippage : SlippagePercents]
    /\ slipOut = [called |-> FALSE, amountOutMin |-> 0]
    /\ QuoteUnused
    /\ SizeUnused

CallAmountOutMin ==
    /\ ~slipOut.called
    /\ slipOut' = [called |-> TRUE,
                   amountOutMin |-> amountOutMinOf(slipIn.quote, slipIn.slippage)]
    /\ UNCHANGED <<quoteIn, quoteOut, slipIn, sizeIn, sizeOut, mainVars, auxVars>>

NextSlip == CallAmountOutMin

SpecSlip == InitSlip /\ [][NextSlip]_vars

(***************************************************************************)
(* calculateSafeTradeAmount applied to balances around the gas reserve     *)
(***************************************************************************)
\* balances: the reserve plus an offset, and a few absolute ones
BalanceOffsets == {0 - 1, 0, 1, parseEther(50), parseEther(100) + 1, parseEther(500)}

TargetTokenAmounts == {None, Some(0), Some(1), Some(parseEther(300)), Some(parseEther(40000))}

InitSize ==
    /\ MainUnused
    /\ AuxUnused
    /\ \E c \in ChainIds, rpc \in RpcAnswers, pools \in Pools, t \in TargetTokenAmounts :
         \E b \in {0} \cup {totalReserveOf(createGasManager(c), rpc) + d : d \in BalanceOffsets} :
            sizeIn = [chainId |-> c, rpc |-> rpc, pools |-> pools, availableETH |-> b,
                      targetTokenAmount |-> t]
    /\ sizeOut = [called |-> FALSE, res |-> SizingFailure("")]
    /\ QuoteUnused
    /\ SlipUnused

CallCalculateSafeTradeAmount ==
    /\ ~sizeOut.called
    /\ sizeOut' = [called |-> TRUE,
                   res |-> calculateSafeTradeAmount(createGasManager(sizeIn.chainId), sizeIn.rpc,
                                                    sizeIn.pools, sizeIn.availableETH,
                                                    sizeIn.targetTokenAmount)]
    /\ UNCHANGED <<quoteIn, quoteOut, slipIn, slipOut, sizeIn, mainVars, auxVars>>

NextSize == CallCalculateSafeTradeAmount

SpecSize == InitSize /\ [][NextSize]_vars

(***************************************************************************)
(* The scheduler's sell check over stored positions, as the clock advances *)
(***************************************************************************)
InitSched ==
    /\ MainUnused
    /\ QuoteUnused /\ SlipUnused /\ SizeUnused
    /\ SearchUnused /\ GasUnused /\ RetryUnused /\ PollUnused
    /\ \E positions \in [{"p1", "p2"} -> [status : {"holding", "failed"},
                                         purchaseTime : PurchaseTimes,
                                         sellTime : {None}]] :
         sched = [SchedIdle EXCEPT !.now = 2 * HourMs, !.positions = positions]

NextSched ==
    \/ checkPositionsToSell_Begin
    \/ checkPositionsToSell_Position
    \/ Tick

SpecSched == InitSched /\ [][NextSched]_vars

(***************************************************************************)
(* calculateEthForTokenAmount applied to every pool configuration          *)
(***************************************************************************)
\* target outputs: none, the least, some inside the range the search interval
\* can deliver, one beyond it
SearchTargets ==
    {0, 1, parseEther(150), parseEther(300), parseEther(2000), parseEther(5050),
     parseEther(5050) + 1, parseEther(40000)}

InitSearch ==
    /\ MainUnused
    /\ QuoteUnused /\ SlipUnused /\ SizeUnused
    /\ SchedUnused /\ GasUnused /\ RetryUnused /\ PollUnused
    /\ searchIn \in [pools : Pools, targetTokenAmount : SearchTargets]
    /\ searchOut = [called |-> FALSE, res |-> NoSearch]

\* the throw after the tier loop is never reached: the loop body returns in
\* its first iteration
CallCalculateEthForTokenAmount ==
    /\ ~searchOut.called
    /\ LET r == calculateEthForTokenAmount(searchIn.pools, searchIn.targetTokenAmount)
       IN  searchOut' = [called |-> TRUE,
                         res |-> [threw |-> FALSE, ethNeeded |-> r.ethNeeded, fee |-> r.fee]]
    /\ UNCHANGED <<searchIn, corePureVars, mainVars, schedVars, gasVars, retryVars, pollVars>>

NextSearch == CallCalculateEthForTokenAmount

SpecSearch == InitSearch /\ [][NextSearch]_vars

(***************************************************************************)
(* getGasConfig applied to every network setting, provider answer,         *)
(* estimate and urgency                                                    *)
(***************************************************************************)
\* the settings createGasManager builds, and legacy (pre-EIP-1559) settings as
\* the GasManager constructor accepts them
GasSettings ==
    {createGasManager(c) : c \in ChainIds}
    \cup {[createGasManager(c) EXCEPT !.supports1559 = FALSE] : c \in {1, 11155111}}

\* gas estimates around the points where the buffered estimate meets the minimum
GasEstimateInputs == {0, 21000, 83333, 83334, 124999, 125000, 125001, 175000, 200000}

InitGas ==
    /\ MainUnused
    /\ QuoteUnused /\ SlipUnused /\ SizeUnused
    /\ SchedUnused /\ SearchUnused /\ RetryUnused /\ PollUnused
    /\ gasIn \in [settings : GasSettings, rpc : RpcAnswers, estimatedGas : GasEstimateInputs,
                   urgency : Urgencies]
    /\ gasOut = [called |-> FALSE, res |-> NoGasConfig]

CallGetGasConfig ==
    /\ ~gasOut.called
    /\ gasOut' = [called |-> TRUE,
                  res |-> getGasConfig(gasIn.settings, gasIn.rpc, gasIn.estimatedGas,
                                       gasIn.urgency)]
    /\ UNCHANGED <<gasIn, corePureVars, mainVars, schedVars, searchVars, retryVars, pollVars>>

NextGas == CallGetGasConfig

SpecGas == InitGas /\ [][NextGas]_vars

(***************************************************************************)
(* estimateGasWithRetry step by step, every call free to succeed or fail   *)
(***************************************************************************)
MaxGasRetries == 3
RetryEstimates == {21000, 175000, 200000}
EstimateErrors == {"execution reverted", "timeout"}

InitRetry ==
    /\ MainUnused
    /\ QuoteUnused /\ SlipUnused /\ SizeUnused
    /\ SchedUnused /\ SearchUnused /\ GasUnused /\ PollUnused
    /\ retryIn \in [retries : 1..MaxGasRetries, gasEstimate : RetryEstimates]
    /\ retryOut = NoEstimate

RetryRest == <<retryIn, corePureVars, mainVars, schedVars, searchVars, gasVars, pollVars>>

\* the call enters the loop
estimateGasWithRetry_Begin ==
    /\ retryOut.at = "idle"
    /\ retryOut' = [retryOut EXCEPT !.at = "loop"]
    /\ UNCHANGED RetryRest

\* one iteration: contract[method].estimateGas answers or throws
estimateGasWithRetry_Call ==
    /\ retryOut.at = "loop"
    /\ retryOut.i < retryIn.retries
    /\ \E answer \in {"ok"} \cup EstimateErrors :
         retryOut' =
            IF answer = "ok"
            THEN [retryOut EXCEPT !.at = "returned",
                                  !.answers = Append(@, answer),
                                  !.steps = @ \o S("estimateGas"),
                                  !.gasEstimate = Some(retryIn.gasEstimate)]
            ELSE [retryOut EXCEPT !.at = IF retryOut.i < retryIn.retries - 1
                                         THEN "sleep" ELSE "loop",
                                  !.i = IF retryOut.i < retryIn.retries - 1 THEN @ ELSE @ + 1,
                                  !.answers = Append(@, answer),
                                  !.steps = @ \o S("estimateGas"),
                                  !.lastError = Some(answer)]
    /\ UNCHANGED RetryRest

\* the wait before the next iteration
estimateGasWithRetry_Wait ==
    /\ retryOut.at = "sleep"
    /\ retryOut' = [retryOut EXCEPT !.at = "loop",
                                    !.i = @ + 1,
                                    !.steps = @ \o Sleep(backoffDelay(retryOut.i))]
    /\ UNCHANGED RetryRest

\* the loop is over without an estimate
estimateGasWithRetry_Throw ==
    /\ retryOut.at = "loop"
    /\ retryOut.i >= retryIn.retries
    /\ retryOut' = [retryOut EXCEPT !.at = "threw",
                                    !.error = <<"Gas estimation failed after ",
                                                ToString(retryIn.retries), " attempts: ">>
                                              \o (IF IsSome(retryOut.lastError)
                                                  THEN <<Get(retryOut.lastError)>>
                                                  ELSE <<"undefined">>)]
    /\ UNCHANGED RetryRest

NextRetry ==
    \/ estimateGasWithRetry_Begin
    \/ estimateGasWithRetry_Call
    \/ estimateGasWithRetry_Wait
    \/ estimateGasWithRetry_Throw

SpecRetry == InitRetry /\ [][NextRetry]_vars

(***************************************************************************)
(* lib/twitterapi-tweets.ts : the polling callbacks of the monitoring      *)
(* service.  Every await of checkRecentTweets and processTweet is a point  *)
(* where another callback can run.                                         *)
(***************************************************************************)
MaxChecks == 2

\* after startPolling(): isRunning is set, the interval and the 2-second
\* timer of the initial check are armed
InitPoll ==
    /\ MainUnused
    /\ QuoteUnused /\ SlipUnused /\ SizeUnused
    /\ SchedUnused /\ SearchUnused /\ GasUnused /\ RetryUnused
    /\ \E flags \in [DOMAIN TweetIds -> [isReply : BOOLEAN, old : BOOLEAN]] :
         poll = [PollIdle EXCEPT
                   !.isRunning = TRUE,
                   !.tweets = [i \in DOMAIN TweetIds |->
                                 [id |-> TweetIds[i], isReply |-> flags[i].isReply,
                                  old |-> flags[i].old]]]

PollRest == <<corePureVars, mainVars, schedVars, searchVars, gasVars, retryVars>>

\* the run moves on to the next tweet of the list, or ends after the last
nextTweet(run) ==
    IF run.idx + 1 > Len(TweetIds) THEN [run EXCEPT !.at = "done"]
    ELSE [run EXCEPT !.at = "loop", !.idx = @ + 1]

\* a timer fires and its callback enters checkRecentTweets: the 2-second
\* timer once, the 5-minute interval while it is armed
checkRecentTweets_Start ==
    /\ Len(poll.runs) < MaxChecks
    /\ \E source \in {"initial", "interval"}, fetched \in BOOLEAN :
         /\ source = "initial" => \A r \in DOMAIN poll.runs : poll.runs[r].source # "initial"
         /\ source = "interval" => poll.isRunning
         /\ poll' = [poll EXCEPT !.runs =
                        Append(@, IF ~poll.isRunning \/ ~fetched
                                  THEN [at |-> "done", source |-> source, idx |-> 0]
                                  ELSE [at |-> "loop", source |-> source, idx |-> 1])]
    /\ UNCHANGED PollRest

\* one iteration of the loop over the tweets, up to the call of processTweet:
\* the age and reply filters and the isTweetProcessed lookup
checkRecentTweets_Tweet ==
    /\ \E r \in DOMAIN poll.runs :
         LET run == poll.runs[r]
             tweet == poll.tweets[run.idx]
         IN  /\ run.at = "loop"
             /\ poll' = [poll EXCEPT !.runs[r] =
                            IF tweet.old \/ tweet.isReply \/ tweet.id \in poll.processed
                            THEN nextTweet(run)
                            ELSE [run EXCEPT !.at = "process"]]
    /\ UNCHANGED PollRest

\* processTweet up to the call of executeTrade: extractTokenMentions and shouldTrade
processTweet_Analyze ==
    /\ \E r \in DOMAIN poll.runs :
         LET run == poll.runs[r]
             tweet == poll.tweets[run.idx]
         IN  /\ run.at = "process"
             /\ \E outcome \in {"noTokens", "noTrade", "trade", "throws"} :
                  poll' =
                    CASE outcome \in {"noTokens", "noTrade"} ->
                           [poll EXCEPT !.runs[r] = nextTweet(run),
                                        !.processed = @ \cup {tweet.id}]
                      [] outcome = "throws" ->
                           [poll EXCEPT !.runs[r] = nextTweet(run)]
                      [] OTHER ->
                           [poll EXCEPT !.runs[r] = [run EXCEPT !.at = "trading"],
                                        !.trades[run.idx] = @ + 1]
    /\ UNCHANGED PollRest

\* executeTrade returns or throws (the error is caught), the tweet is marked
processTweet_TradeReturns ==
    /\ \E r \in DOMAIN poll.runs :
         LET run == poll.runs[r]
             tweet == poll.tweets[run.idx]
         IN  /\ run.at = "trading"
             /\ poll' = [poll EXCEPT !.runs[r] = nextTweet(run),
                                     !.processed = @ \cup {tweet.id}]
    /\ UNCHANGED PollRest

stopPolling ==
    /\ poll.isRunning
    /\ poll' = [poll EXCEPT !.isRunning = FALSE]
    /\ UNCHANGED PollRest

NextPoll ==
    \/ checkRecentTweets_Start
    \/ checkRecentTweets_Tweet
    \/ processTweet_Analyze
    \/ processTweet_TradeReturns
    \/ stopPolling

SpecPoll == InitPoll /\ [][NextPoll]_vars

(***************************************************************************)
(* Properties of the venues and of the orchestrator                        *)
(***************************************************************************)
Events(ev, venue) == {i \in DOMAIN log : log[i].ev = ev /\ log[i].venue = venue}

\* sub occurs in seq as a run of consecutive elements
Contains(seq, sub) ==
    \E k \in 0..(Len(seq) - Len(sub)) : \A j \in 1..Len(sub) : seq[k + j] = sub[j]

PrimaryFailed == \E i \in Events("return", "v3") : ~log[i].success
PrimarySucceeded == \E i \in Events("return", "v3") : log[i].success
FallbackFailed == \E i \in Events("return", "v2") : ~log[i].success
FallbackSucceeded == \E i \in Events("return", "v2") : log[i].success

\* C1: in executeEthereumNetworkTrade the fallback venue is never invoked (nor
\* even created) when the primary venue returned success; when the primary
\* returned failure the fallback is invoked exactly once, after the primary's
\* return, with the token address and the ETH amount the primary was called with.
C1_FallbackOnlyAfterPrimaryFailure ==
    /\ Cardinality(Events("call", "v3")) <= 1
    /\ PrimarySucceeded =>
         /\ Events("call", "v2") = {}
         /\ ~trader.v2.created
         /\ ex.name # "SimpleSwapper.swapEthForToken"
    /\ PrimaryFailed =>
         /\ Cardinality(Events("call", "v2")) = 1
         /\ \A j \in Events("call", "v2") :
              \E c \in Events("call", "v3"), r \in Events("return", "v3") :
                 /\ c < r /\ r < j
                 /\ log[j].tokenAddress = log[c].tokenAddress
                 /\ log[j].ethAmount = log[c].ethAmount
    /\ Events("call", "v2") # {} => PrimaryFailed
    /\ (trader.v2.created \/ ex.name = "SimpleSwapper.swapEthForToken")
         => Events("call", "v2") # {}

C1_Witness ==
    /\ PrimaryFailed
    /\ FallbackSucceeded
    /\ pc = "returned"
    /\ \E j \in Events("call", "v2") : log[j].ethAmount = 10000 /\ log[j].tokenAddress = ValidToken

\* every attempt made so far reached submit and had it rejected
SubmitAlwaysFailed(x) == x.attempt >= 1 /\ x.calls["submit"] = x.attempt /\ x.hashes = <<>>

\* C2 as stated: UniswapTrader.swapEthForToken, when submit fails on every
\* attempt, has invoked submit exactly 3 times and slept 2000 ms and then
\* 4000 ms between the attempts by the time it returns its failure outcome.
C2_ThreeSubmitsDoublingBackoff ==
    (ex.name = "swapEthForToken" /\ ex.result.done /\ SubmitAlwaysFailed(ex)) =>
        /\ ex.calls["submit"] = 3
        /\ ex.sleeps = <<2000, 4000>>
        /\ ~ex.result.success

\* C2 as the code has it: UniswapTrader.swapEthForToken, when submit fails on
\* every attempt, invokes submit exactly 2 times, sleeps 1000 ms once, between
\* attempt 1 and attempt 2 and not after the last attempt, and then returns a
\* failure outcome carrying the attempt count; it never makes a third attempt.
C2_TwoSubmitsOneSecond ==
    (ex.name = "swapEthForToken" /\ SubmitAlwaysFailed(ex)) =>
        /\ ex.attempt <= 2
        /\ ex.attempt = 1 => ~ex.result.done /\ ex.sleeps = <<1000>>
        /\ ex.attempt = 2 =>
             /\ ex.result.done /\ ~ex.result.success
             /\ ex.calls["submit"] = 2
             /\ ex.sleeps = <<1000>>
             /\ ex.calls["sleep"] = 1
             /\ Contains(ex.result.error, <<"After ", "2", " attempts: ">>)

C2_Witness ==
    /\ ex.name = "swapEthForToken"
    /\ ex.result.done
    /\ SubmitAlwaysFailed(ex)
    /\ ex.calls["submit"] = 2

\* C3: with a malformed token address every executor (swapEthForToken,
\* swapEthForExactTokens, SimpleSwapper.swapEthForToken) makes exactly one
\* attempt, never sleeps, and returns a failure outcome after that attempt.
C3_MalformedAddressFailsFast ==
    (ex.name # "none" /\ ~isAddress(ex.tokenAddress)) =>
        /\ ex.attempt <= 1
        /\ ex.sleeps = <<>>
        /\ ex.attempt = 1 => ex.result.done /\ ~ex.result.success

\* C4: a SimpleSwapper.swapEthForToken call with an amount below 0.0015 ETH
\* fails at once with the minimum-size error: one attempt, no sleep, and no
\* call to the signer, the provider or the router.
C4_BelowMinimumFailsAtOnce ==
    (/\ ex.name = "SimpleSwapper.swapEthForToken"
     /\ isAddress(ex.tokenAddress)
     /\ parseEther(ex.ethAmount) < parseEther(150)) =>
        /\ ex.attempt <= 1
        /\ ex.sleeps = <<>>
        /\ ex.calls["getAddress"] = 0
        /\ ex.calls["estimateGas"] = 0
        /\ ex.calls["submit"] = 0
        /\ ex.attempt = 1 =>
             /\ ex.result.done /\ ~ex.result.success
             /\ Contains(ex.result.error, <<"Trade amount too small: ">>)

LastToast == toasts[Len(toasts)]

C10_BothErrorsSurfaced ==
    (PrimaryFailed /\ FallbackFailed /\ pc = "threw") =>
        \A p \in Events("return", "v3"), f \in Events("return", "v2") :
           /\ Contains(orch.thrown, log[p].error)
           /\ Contains(orch.thrown, log[f].error)
           /\ LastToast.type = "error"
           /\ Contains(LastToast.message, log[p].error)
           /\ Contains(LastToast.message, log[f].error)

\* the trade of this request was carried out: the custodial trade settled, or
\* the venue whose result the orchestrator holds reported success
ExecutionSucceeded == orch.custodial = "settled" \/ orch.swapResult.success

\* a network-family function threw
ExecutionFailed == orch.error # <<>>

BalanceTooLow ==
    /\ IsSome(orch.balanceETH)
    /\ \/ Get(orch.balanceETH) < env.config.minTradeAmountETH
       \/ env.network.chainType = "ethereum" /\ Get(orch.balanceETH) < 150

\* no venue and no custodial trade was invoked, nothing was saved or notified
NothingDone ==
    /\ log = <<>>
    /\ trader = NoTraders
    /\ ex = ExIdle
    /\ orch.custodial = "none"
    /\ ~orch.position.created
    /\ db.positions = <<>>
    /\ toasts = <<>>

C13_DisabledFamilyAlwaysSkips ==
    (orch.tokenAddress # "" /\ ~env.config.enabled /\ pc # "start") =>
        /\ pc = "returned"
        /\ orch.skipped
        /\ orch.thrown = <<>>
        /\ NothingDone

LastAttemptExhaustedTiers ==
    /\ ex.name = "swapEthForToken"
    /\ ex.attempt >= 1
    /\ CountOps(ex.steps)["quote"] = Len(feeTiers)
    /\ ex.lastError = <<"No liquidity found">>

\* C16: when no fee tier has liquidity, findBestFeeAndQuote fails with the
\* no-liquidity error after exactly one quote call per tier (three calls); in
\* the primary executor such an exhaustion takes exactly one attempt, submits
\* no transaction in that attempt, and when it happens in the last attempt the
\* executor returns - it does not throw - a failure result carrying the
\* no-liquidity message.
C16_NoLiquidityExhaustsTiers ==
    /\ \A pools \in Pools, amountIn \in DirectAmounts :
         LET f == findBestFeeAndQuote(pools, parseEther(amountIn))
         IN  (\A t \in DOMAIN pools : ~pools[t].liquid) <=>
                 (~f.ok /\ f.quoteCalls = 3 /\ f.error = "No liquidity found")
    /\ LastAttemptExhaustedTiers =>
         /\ CountOps(ex.steps)["submit"] = 0
         /\ CountOps(ex.steps)["estimateGas"] = 0
         /\ ex.tx = NoTx
         /\ ~ex.hung
         /\ ex.attempt <= maxRetries_Simple
         /\ ex.calls["quote"] <= Len(feeTiers) * ex.attempt
         /\ ex.attempt < maxRetries_Simple => ~ex.result.done
         /\ ex.attempt = maxRetries_Simple =>
              /\ ex.result.done
              /\ ~ex.result.success
              /\ ex.result.transactionHash = ""
              /\ ex.result.error = <<"After ", "2", " attempts: ", "No liquidity found">>

C16_Witness ==
    /\ LastAttemptExhaustedTiers
    /\ ex.result.done
    /\ ex.calls["quote"] = 6
    /\ ex.hashes = <<>>

\* the statement of C17 as written: the fallback's attempts and sleeps as in
\* C17 below, and the primary executor sleeping on that same schedule
C17_SameScheduleAsPrimary ==
    /\ ex.name = "SimpleSwapper.swapEthForToken" =>
         /\ ex.attempt <= 3
         /\ \A i \in DOMAIN ex.sleeps : ex.sleeps[i] = 2 ^ (i - 1) * 2000
    /\ ex.name \in {"swapEthForToken", "swapEthForExactTokens"} =>
         \A i \in DOMAIN ex.sleeps : ex.sleeps[i] = 2 ^ (i - 1) * 2000

\* C17: SimpleSwapper.swapEthForToken makes at most 3 attempts; after a failed
\* attempt that is not the last it sleeps 2000 ms (after the first) or 4000 ms
\* (after the second) and it never sleeps after the last attempt; when all
\* three fail it returns - it does not throw - success=false with the last
\* attempt's error message prefixed by the attempt count; a successful attempt
\* is the last one.  This is the schedule of swapEthForExactTokens; the
\* swapEthForToken the orchestrator calls sleeps 1000 ms once.
C17_FallbackThreeAttempts ==
    ex.name = "SimpleSwapper.swapEthForToken" =>
        /\ ex.attempt <= 3
        /\ ~ex.hung
        /\ Len(ex.sleeps) <= 2
        /\ ex.sleeps = SubSeq(<<2000, 4000>>, 1, Len(ex.sleeps))
        /\ ~ex.result.done => Len(ex.sleeps) = ex.attempt
        /\ (ex.result.done /\ ex.result.success) =>
             /\ Len(ex.sleeps) = ex.attempt - 1
             /\ ex.hashes # <<>>
             /\ ex.result.transactionHash = ex.hashes[Len(ex.hashes)]
        /\ (ex.result.done /\ ~ex.result.success) =>
             /\ ex.attempt = 3
             /\ ex.sleeps = <<2000, 4000>>
             /\ ex.lastError # <<>>
             /\ ex.result.error = <<"After ", "3", " attempts: ">> \o ex.lastError

C17_Witness ==
    /\ ex.name = "SimpleSwapper.swapEthForToken"
    /\ ex.result.done
    /\ ~ex.result.success
    /\ ex.attempt = 3
    /\ ex.sleeps = <<2000, 4000>>

\* C18: every executor call - swapEthForToken as the orchestrator uses it,
\* swapEthForExactTokens and SimpleSwapper.swapEthForToken - returns even when
\* the confirmation of a submitted transaction never arrives: the wait for the
\* receipt races a 5-minute timer, so no call is left waiting for a receipt
\* that never comes.
C18_EveryWaitIsBounded ==
    ex.name # "none" => ~ex.hung

\* C19: the amount executeTrade commits to a trade never exceeds the
\* configured maximum trade amount maxTradeAmountUSD: its value in USD, at the
\* price of ETH, is at most that maximum (amounts are in 0.00001 ETH).
C19_AmountWithinConfiguredMaximum ==
    orch.position.created =>
        orch.tradeAmountETH * ethPriceUSD <= maxTradeAmountUSD * 100000

\* C20: every swap transaction an ethereum-network trade submits, on the
\* primary and on the fallback venue, enforces the configured maxSlippage (3%):
\* it was priced by a quote, and its minimum output is at least
\* quote * (100 - maxSlippage) / 100.
C20_SubmittedMinOutputHonoursMaxSlippage ==
    (env.network.chainType = "ethereum" /\ orch.position.created /\ ex.tx # NoTx) =>
        /\ IsSome(ex.tx.quote)
        /\ ex.tx.amountOutMinimum >= amountOutMinOf(Get(ex.tx.quote), orch.maxSlippage)

\* C21: in every sell check of the scheduler, executeSell is invoked for a
\* position the check looks at if and only if at least holdDurationHours
\* (24 h) have elapsed since its purchase time when the check looks at it; no
\* position is sold before that, only positions stored with status 'holding'
\* are looked at, and a finished check has looked at every one of them.
C21_SoldOnlyAfterHoldDuration ==
    /\ \A i \in DOMAIN sched.examined :
         LET e == sched.examined[i]
         IN  /\ e.status = "holding"
             /\ e.sold <=> e.at - sched.positions[e.id].purchaseTime
                              >= holdDurationHours * HourMs
             /\ e.id = sched.snapshot[i]
    /\ \A c \in sched.sells :
         /\ c.status = "holding"
         /\ c.at - sched.positions[c.id].purchaseTime >= holdDurationHours * HourMs
    /\ \A id \in DOMAIN sched.positions :
         LET position == sched.positions[id]
         IN  /\ position.status = "sold" =>
                  /\ IsSome(position.sellTime)
                  /\ Get(position.sellTime) - position.purchaseTime >= holdDurationHours * HourMs
             /\ (position.status = "holding" /\ ~sched.running /\ sched.snapshot # <<>>) =>
                  \E i \in DOMAIN sched.examined : sched.examined[i].id = id
    /\ ~sched.running => Len(sched.examined) = Len(sched.snapshot)

C21_Witness ==
    /\ ~sched.running
    /\ Len(sched.examined) = 2
    /\ sched.examined[1].sold
    /\ ~sched.examined[2].sold
    /\ sched.examined[1].at = holdDurationHours * HourMs
    /\ sched.positions["p1"].status = "sold"
    /\ sched.positions["p2"].status = "holding"

\* the stage of an attempt a call belongs to; 0 for the calls that belong to none
\* (reading the fee data, sleeping between two gas estimates)
Stage(op) ==
    CASE op = "isAddress" -> 1
      [] op \in {"getAddress", "getBalance"} -> 2
      [] op = "quote" -> 3
      [] op = "estimateGas" -> 4
      [] op = "submit" -> 5
      [] op = "wait" -> 6
      [] OTHER -> 0

\* C22: within every attempt of the primary executor (swapEthForToken and
\* swapEthForExactTokens) the calls occur in the order address validation,
\* balance read, quote, gas estimation, submit, await confirmation; an attempt
\* submits at most once, and only after a quote and a gas estimate made
\* earlier in that same attempt, also in the attempts after the first.
C22_AttemptStepsInOrder ==
    ex.name \in {"swapEthForToken", "swapEthForExactTokens"} =>
        /\ \A i, j \in DOMAIN ex.steps :
             (i < j /\ Stage(ex.steps[i].op) # 0 /\ Stage(ex.steps[j].op) # 0) =>
                 Stage(ex.steps[i].op) <= Stage(ex.steps[j].op)
        /\ CountOps(ex.steps)["isAddress"] <= 1
        /\ CountOps(ex.steps)["submit"] <= 1
        /\ \A k \in DOMAIN ex.steps :
             ex.steps[k].op = "submit" =>
                 /\ \E i \in 1..(k - 1) : ex.steps[i].op = "quote"
                 /\ \E i \in 1..(k - 1) : ex.steps[i].op = "estimateGas"
                 /\ \E i \in 1..(k - 1) : ex.steps[i].op = "getBalance"
                 /\ ex.steps[1].op = "isAddress"
        /\ ex.tx # NoTx =>
             /\ CountOps(ex.steps)["submit"] = 1
             /\ IsSome(ex.tx.quote)
             /\ \E gasEstimate \in GasEstimates : ex.tx.gasLimit >= gasEstimate
        /\ \A k \in DOMAIN ex.steps :
             ex.steps[k].op = "wait" => k > 1 /\ ex.steps[k - 1].op = "submit"

C22_Witness ==
    /\ ex.name = "swapEthForToken"
    /\ ex.attempt = 2
    /\ ex.result.done /\ ex.result.success
    /\ CountOps(ex.steps)["submit"] = 1
    /\ ex.calls["submit"] = 2
    /\ ex.calls["quote"] >= 2
    /\ ex.calls["estimateGas"] >= 2

\* C23: in every transaction swapEthForTokenInternal submits, the transaction
\* value, the amountIn swap parameter and the value given to the gas
\* estimation all equal the tradeAmount calculateSafeTradeAmount returned in
\* that same attempt, which leaves the gas reserve in the wallet; the amount
\* the caller asked for is not used.
C23_SubmittedAmountIsSafeAmount ==
    (ex.name = "swapEthForExactTokens" /\ ex.tx # NoTx) =>
        /\ IsSome(ex.tx.safeAmount)
        /\ ex.tx.value = Get(ex.tx.safeAmount)
        /\ ex.tx.amountIn = Get(ex.tx.safeAmount)
        /\ ex.tx.estimateValue = Get(ex.tx.safeAmount)
        /\ Get(ex.tx.safeAmount) > 0
        /\ Get(ex.tx.safeAmount) < ex.tx.balance
        /\ \E chainId \in ChainIds, rpc \in ExecRpc, pools \in ExecPools :
             LET safeCalc == calculateSafeTradeAmount(createGasManager(chainId), rpc,
                                                      pools, ex.tx.balance, ex.targetTokenAmount)
             IN  safeCalc.ok /\ safeCalc.tradeAmount = ex.tx.value

C23_Witness ==
    /\ ex.name = "swapEthForExactTokens"
    /\ ex.result.done /\ ex.result.success
    /\ ex.tx.value = Get(ex.tx.safeAmount)
    /\ ex.tx.value < ex.tx.balance
    /\ ex.tx.value > 0

(***************************************************************************)
(* Properties of the quote engine and of the sizing                        *)
(***************************************************************************)
C5_B == sizeIn.availableETH
C5_G == totalReserveOf(createGasManager(sizeIn.chainId), sizeIn.rpc)

\* C5: with B the available balance and G the gas reserve (gas limit x fee per
\* gas for a 200000-gas estimate at standard urgency, plus the 0.0002 ETH
\* buffer): if B <= G calculateSafeTradeAmount fails with the insufficient-ETH
\* error; if B > G every result it returns, with or without a target output,
\* has tradeAmount + gasReserve <= B, i.e. tradeAmount <= B - G.
C5_SafeAmountWithinBalance ==
    sizeOut.called =>
        /\ C5_B <= C5_G => ~sizeOut.res.ok /\ sizeOut.res.error = "Insufficient ETH"
        /\ C5_B > C5_G /\ sizeOut.res.ok =>
              /\ sizeOut.res.tradeAmount + sizeOut.res.gasReserve <= C5_B
              /\ sizeOut.res.tradeAmount <= C5_B - C5_G
              /\ sizeOut.res.tradeAmount >= 0

\* a target whose input need exceeds the balance left after the reserve: capped
C5_Witness ==
    /\ sizeOut.called
    /\ sizeOut.res.ok
    /\ IsSome(sizeIn.targetTokenAmount)
    /\ Get(sizeIn.targetTokenAmount) = parseEther(40000)
    /\ C5_B = C5_G + parseEther(50)
    /\ sizeOut.res.tradeAmount = parseEther(50)

C6_Order == <<3000, 500, 10000>>
C6_Liquid == {i \in 1..3 : quoteIn.pools[C6_Order[i]].liquid}

\* C6: findBestFeeAndQuote tries the tiers in the order 3000, 500, 10000 and
\* returns the first tier whose quote succeeds: the returned tier is the
\* earliest liquid one and the returned quote is that tier's, even when a later
\* tier would quote more; with no liquid tier it fails.
C6_FirstLiquidTierWins ==
    quoteOut.called =>
        IF C6_Liquid = {}
        THEN ~quoteOut.res.ok
        ELSE LET first == CHOOSE i \in C6_Liquid : \A j \in C6_Liquid : i <= j
             IN  /\ quoteOut.res.ok
                 /\ quoteOut.res.fee = C6_Order[first]
                 /\ quoteOut.res.quote
                      = quoteIn.ethAmountWei * quoteIn.pools[C6_Order[first]].rate
                 /\ quoteOut.res.quoteCalls = first

\* tiers 3000 and 500 both liquid, 500 quoting more: 3000 is returned
C6_Witness ==
    /\ quoteOut.called
    /\ quoteIn.pools[3000].liquid
    /\ quoteIn.pools[500].liquid
    /\ quoteIn.pools[500].rate > quoteIn.pools[3000].rate
    /\ quoteIn.ethAmountWei > 0
    /\ quoteOut.res.fee = 3000

\* C7: for every quote Q >= 0 returned by a tier, the minimum output computed
\* by findBestFeeAndQuote satisfies 0 <= amountOutMin <= Q.
C7_MinOutputWithinQuote ==
    quoteOut.called /\ quoteOut.res.ok =>
        /\ 0 <= quoteOut.res.amountOutMin
        /\ quoteOut.res.amountOutMin <= quoteOut.res.quote

C7_Witness ==
    /\ quoteOut.called
    /\ quoteOut.res.ok
    /\ quoteOut.res.quote = 100
    /\ quoteOut.res.amountOutMin = 95

\* C8 as stated: the minimum output (Q x (100 - S)) / 100 in integer arithmetic
\* is strictly decreasing in S, for every quote Q and all S1 < S2 in 1..99.
C8_StrictlyDecreasing ==
    slipOut.called =>
        \A s2 \in SlippagePercents :
            slipIn.slippage < s2 =>
                slipOut.amountOutMin > amountOutMinOf(slipIn.quote, s2)

\* C8 (amended): the minimum output is non-increasing in S for every quote
\* Q >= 0, and strictly decreasing in S whenever Q >= 100; for 0 <= Q < 100
\* the integer division can give two slippage percentages the same minimum.
C8_DecreasingFromHundred ==
    slipOut.called =>
        \A s2 \in SlippagePercents :
            slipIn.slippage < s2 =>
                /\ slipOut.amountOutMin >= amountOutMinOf(slipIn.quote, s2)
                /\ slipIn.quote >= 100 =>
                      slipOut.amountOutMin > amountOutMinOf(slipIn.quote, s2)

C8_Witness ==
    /\ slipOut.called
    /\ slipIn.quote = 100
    /\ slipIn.slippage = 5
    /\ slipOut.amountOutMin = 95
    /\ amountOutMinOf(slipIn.quote, 6) = 94

\* C24: for every target output amount the caller of swapEthForExactTokens
\* supplies, a target of 0 included, and a balance above the gas reserve,
\* calculateSafeTradeAmount returns tradeAmount = min(inputNeeded,
\* maxTradeAmount), with inputNeeded the result of the quote inversion for the
\* target and maxTradeAmount = balance - gasReserve; it does not fail.
C24_TargetGivesMinOfNeedAndMax ==
    (sizeOut.called /\ IsSome(sizeIn.targetTokenAmount) /\ C5_B > C5_G) =>
        LET inputNeeded ==
                calculateEthForTokenAmount(sizeIn.pools, Get(sizeIn.targetTokenAmount)).ethNeeded
            maxTradeAmount == C5_B - C5_G
        IN  /\ sizeOut.res.ok
            /\ sizeOut.res.tradeAmount = Min(inputNeeded, maxTradeAmount)

\* the ends of the interval calculateEthForTokenAmount searches: 0.001 and 0.1 ETH
C25_Low == parseEther(100)
C25_High == parseEther(10000)

\* C25: for the quote function of a liquid pool, which is non-decreasing in
\* the input, and every target output that some input of the search interval
\* [0.001 ETH, 0.1 ETH] reaches, calculateEthForTokenAmount returns the
\* smallest input amount of the interval whose quote meets or exceeds the
\* target: the returned amount meets the target and the amount one unit
\* below it, if still in the interval, does not.
C25_SearchFindsSmallestInput ==
    (/\ searchOut.called
     /\ searchIn.pools[feeTiers[1]].liquid
     /\ getQuote(searchIn.pools, feeTiers[1], C25_High).amountOut >= searchIn.targetTokenAmount) =>
        LET x == searchOut.res.ethNeeded
        IN  /\ x \in C25_Low..C25_High
            /\ getQuote(searchIn.pools, feeTiers[1], x).amountOut >= searchIn.targetTokenAmount
            /\ x > C25_Low =>
                 getQuote(searchIn.pools, feeTiers[1], x - 1).amountOut
                     < searchIn.targetTokenAmount

\* C26: calculateEthForTokenAmount answers the first fee tier, in the order
\* 3000, 500, 10000, on which the search converges: when the first tier has no
\* liquidity and a later one has, the answered tier is a liquid one; when no
\* tier has liquidity the call fails.
C26_SearchSkipsIlliquidTiers ==
    searchOut.called =>
        /\ (\E t \in DOMAIN searchIn.pools : searchIn.pools[t].liquid) =>
              /\ ~searchOut.res.threw
              /\ searchIn.pools[searchOut.res.fee].liquid
        /\ (\A t \in DOMAIN searchIn.pools : ~searchIn.pools[t].liquid) => searchOut.res.threw

(***************************************************************************)
(* Properties of the gas manager                                           *)
(***************************************************************************)
\* C27: for every gas estimate E and urgency, getGasConfig returns gasLimit =
\* max(floor(E * 120 / 100), F) with F = 150000 on main networks and 100000
\* on test networks; the limit is at least E and is the same for every
\* urgency and every provider answer.
C27_GasLimitBufferedAndFloored ==
    gasOut.called =>
        LET E == gasIn.estimatedGas
            F == IF gasIn.settings.isMainnet THEN 150000 ELSE 100000
            buffered == (E * 120) \div 100
        IN  /\ gasOut.res.gasLimit >= buffered
            /\ gasOut.res.gasLimit >= F
            /\ gasOut.res.gasLimit \in {buffered, F}
            /\ gasOut.res.gasLimit >= E
            /\ \A rpc \in RpcAnswers, urgency \in Urgencies :
                 getGasConfig(gasIn.settings, rpc, E, urgency).gasLimit = gasOut.res.gasLimit

C27_Witness ==
    /\ gasOut.called
    /\ ~gasIn.settings.isMainnet
    /\ gasIn.estimatedGas = 83333
    /\ gasIn.urgency = "rapid"
    /\ gasOut.res.gasLimit = 100000

\* getFeeData or getBlock rejected in the call (a legacy network does not read the block)
C28_ProviderFailed ==
    \/ gasIn.rpc.feeDataFails
    \/ gasIn.settings.supports1559 /\ gasIn.rpc.blockFails

\* C28: getGasConfig does not fail because of a provider error: whenever
\* getFeeData or getBlock fails, for every network setting and urgency, it
\* returns a complete gas configuration built from the fallback constants:
\* type 2 with maxFeePerGas 15 gwei and maxPriorityFeePerGas 2 gwei on main
\* networks (3 and 0.2 gwei on test networks), or type 0 with gasPrice 10 gwei
\* on main networks (2 gwei on test networks).
C28_ProviderFailureGivesFallbackFees ==
    gasOut.called =>
        /\ gasOut.res.gasLimit > 0
        /\ gasOut.res.type = 2 =>
             /\ gasIn.settings.supports1559
             /\ IsSome(gasOut.res.maxFeePerGas) /\ IsSome(gasOut.res.maxPriorityFeePerGas)
             /\ Get(gasOut.res.maxFeePerGas) > 0
        /\ gasOut.res.type = 0 =>
             /\ ~gasIn.settings.supports1559
             /\ IsSome(gasOut.res.gasPrice)
             /\ Get(gasOut.res.gasPrice) > 0
        /\ gasOut.res.type \in {0, 2}
        /\ (C28_ProviderFailed /\ gasOut.res.type = 2) =>
             /\ gasOut.res.maxFeePerGas =
                  Some(IF gasIn.settings.isMainnet THEN parseUnitsGwei(15, 0)
                       ELSE parseUnitsGwei(3, 0))
             /\ gasOut.res.maxPriorityFeePerGas =
                  Some(IF gasIn.settings.isMainnet THEN parseUnitsGwei(2, 0)
                       ELSE parseUnitsGwei(0, 200))
        /\ (C28_ProviderFailed /\ gasOut.res.type = 0) =>
             gasOut.res.gasPrice =
                 Some(IF gasIn.settings.isMainnet THEN parseUnitsGwei(10, 0)
                      ELSE parseUnitsGwei(2, 0))

C28_Witness ==
    /\ gasOut.called
    /\ gasIn.rpc.blockFails
    /\ gasIn.settings.isMainnet
    /\ gasOut.res.type = 2
    /\ gasOut.res.maxFeePerGas = Some(parseUnitsGwei(15, 0))

C29_Calls == SelectSeq(retryOut.steps, LAMBDA st : st.op = "estimateGas")
C29_Sleeps == SelectSeq(retryOut.steps, LAMBDA st : st.op = "sleep")
C29_Failed == Cardinality({k \in 1..Len(retryOut.answers) : retryOut.answers[k] # "ok"})

\* C29: estimateGasWithRetry with a budget of N >= 1 calls estimateGas at most
\* N times and returns the first successful estimate without a further call;
\* the wait after failed attempt i is 1000 * 2^i ms for i = 0..N-2, with no
\* wait after the last attempt; when all N attempts fail it throws an error
\* that carries the attempt count and the message of the last failure.
C29_RetryBudgetAndBackoff ==
    LET N == retryIn.retries
        answers == retryOut.answers
    IN  /\ Len(C29_Calls) = Len(answers)
        /\ Len(answers) <= N
        /\ \A k \in 1..(Len(answers) - 1) : answers[k] # "ok"
        /\ Len(C29_Sleeps) <= N - 1
        /\ Len(C29_Sleeps) <= C29_Failed
        /\ \A k \in 1..Len(C29_Sleeps) : C29_Sleeps[k].ms = 1000 * 2 ^ (k - 1)
        /\ retryOut.at = "loop" /\ Len(answers) < N => Len(C29_Sleeps) = C29_Failed
        /\ retryOut.at = "returned" =>
             /\ answers[Len(answers)] = "ok"
             /\ retryOut.gasEstimate = Some(retryIn.gasEstimate)
             /\ Len(C29_Sleeps) = Len(answers) - 1
             /\ retryOut.error = <<>>
        /\ retryOut.at = "threw" =>
             /\ Len(answers) = N
             /\ C29_Failed = N
             /\ Len(C29_Sleeps) = N - 1
             /\ retryOut.gasEstimate = None
             /\ retryOut.error = <<"Gas estimation failed after ", ToString(N), " attempts: ",
                                   answers[N]>>
        /\ retryOut.at \in {"returned", "threw"} =>
             LET g == estimateGasWithRetry(N, C29_Failed, retryIn.gasEstimate)
             IN  /\ g.ok = (retryOut.at = "returned")
                 /\ g.steps = retryOut.steps

C29_Witness ==
    /\ retryIn.retries = 3
    /\ retryOut.at = "threw"
    /\ retryOut.answers = <<"execution reverted", "execution reverted", "timeout">>
    /\ retryOut.error[4] = "timeout"
    /\ Len(C29_Sleeps) = 2

C31_NoResubmissionWhilePending ==
    \A k \in 1..(Len(ex.receipts) - 1) : ex.receipts[k] \in {"reverted", "throws"}

\* C32: every transaction the primary executor submits is affordable against
\* the balance read in that attempt: value + gasLimit x fee per gas (the
\* maxFeePerGas or gasPrice attached to the transaction) is at most that
\* balance, on the simple path and on the balance-managed path.
C32_SubmittedTransactionAffordable ==
    (ex.name \in {"swapEthForToken", "swapEthForExactTokens"} /\ ex.tx # NoTx) =>
        ex.tx.value + GasCost(ex.tx.gasLimit, ex.tx.feePerGas) <= ex.tx.balance

\* C33: in every swap transaction the primary executor submits, the fee tier
\* of the swap parameters is the tier whose quote produced the
\* amountOutMinimum of those parameters, on the simple path and on the
\* balance-managed path.
C33_FeeTierIsTheQuotedTier ==
    (ex.name \in {"swapEthForToken", "swapEthForExactTokens"} /\ ex.tx # NoTx) =>
        ex.tx.quoteFee = Some(ex.tx.fee)

(***************************************************************************)
(* Properties of the quote inversion                                       *)
(***************************************************************************)
\* C34: whenever calculateEthForTokenAmount returns an input amount, the
\* forward quote of that amount on the returned tier meets or exceeds the
\* target; when no input of the search interval reaches the target, or every
\* quote fails, the call fails instead of returning an amount.
C34_ReturnedInputMeetsTarget ==
    (searchOut.called /\ ~searchOut.res.threw) =>
        LET q == getQuote(searchIn.pools, searchOut.res.fee, searchOut.res.ethNeeded)
        IN  q.ok /\ q.amountOut >= searchIn.targetTokenAmount

(***************************************************************************)
(* Further properties of the orchestrator                                  *)
(***************************************************************************)
\* C35: whenever executeTrade goes on to a swap or a custodial trade, the
\* trade amount it passes does not exceed the wallet balance it read for the
\* sizing: for every balance that passes the minimum checks, the largest of
\* 10% of the balance, the family minimum and (on ethereum) the DEX minimum
\* is at most the balance.
C35_TradeAmountWithinBalance ==
    /\ orch.position.created =>
          /\ IsSome(orch.balanceETH)
          /\ orch.tradeAmountETH <= Get(orch.balanceETH)
          /\ orch.position.amount <= Get(orch.balanceETH)
    /\ \A i \in DOMAIN log :
          log[i].ev = "call" =>
              IsSome(orch.balanceETH) /\ log[i].ethAmount <= Get(orch.balanceETH)

C35_Witness ==
    /\ orch.position.created
    /\ env.network.chainType = "ethereum"
    /\ orch.balanceETH = Some(150)
    /\ orch.tradeAmountETH = 150
    /\ \E i \in DOMAIN log : log[i].ev = "call" /\ log[i].ethAmount = 150

(***************************************************************************)
(* Further properties of the gas manager                                   *)
(***************************************************************************)
\* C36: every type 2 gas configuration getGasConfig returns has
\* maxFeePerGas >= maxPriorityFeePerGas, for every base fee, urgency and
\* network setting of createGasManager, after the minimum-fee floors and on
\* the fallback path of a failing provider.
C36_MaxFeeCoversPriorityFee ==
    (gasOut.called /\ gasOut.res.type = 2) =>
        /\ IsSome(gasOut.res.maxFeePerGas) /\ IsSome(gasOut.res.maxPriorityFeePerGas)
        /\ Get(gasOut.res.maxFeePerGas) >= Get(gasOut.res.maxPriorityFeePerGas)

\* Base mainnet at a base fee of 0.01 gwei: both floors apply
C36_Witness ==
    /\ gasOut.called
    /\ gasIn.settings.chainId = 8453
    /\ ~gasIn.rpc.feeDataFails /\ ~gasIn.rpc.blockFails
    /\ gasIn.rpc.baseFeePerGas = Some(parseUnitsGwei(0, 10))
    /\ gasOut.res.type = 2
    /\ gasOut.res.maxPriorityFeePerGas = Some(parseUnitsGwei(1, 0))
    /\ gasOut.res.maxFeePerGas = Some(parseUnitsGwei(5, 0))

(***************************************************************************)
(* Properties of the network detection                                     *)
(***************************************************************************)
\* C37: every gas configuration attached to a submitted transaction is
\* computed with the network settings of the provider's chain id, under
\* every interleaving of the un-awaited network detection with the swap: the
\* swap never uses the mainnet-default gas manager on another chain.
C37_GasSettingsOfTheActualChain ==
    ex.tx # NoTx => ex.tx.gasChain = env.network.chainId

(***************************************************************************)
(* Properties of the monitoring service                                    *)
(***************************************************************************)
\* C38: for each tweet and token executeTrade is invoked at most once, under
\* every interleaving of the polling callbacks: a tweet whose processing is
\* still in progress is not picked up again by the initial check or by a
\* later interval tick.
C38_TradeInvokedOncePerTweet ==
    \A i \in DOMAIN poll.trades : poll.trades[i] <= 1

(***************************************************************************)
(* Properties of the notifications                                         *)
(***************************************************************************)
\* C39: for every network descriptor of the configuration, the explorer URL
\* of a trade notification on that network is the descriptor's
\* blockExplorerUrl followed by /tx/ and the transaction hash; the fallback
\* default is used only for unknown network ids.
C39_ExplorerUrlOfTheTradedNetwork ==
    \A i \in DOMAIN toasts :
        (toasts[i].type = "trade-buy" /\ toasts[i].txHash \notin {"", "0xmock"}) =>
            toasts[i].explorerUrl =
                <<blockExplorerUrl(env.network.id) \o "/tx/", toasts[i].txHash>>
====
